---- MODULE Spec2Model ----
(***************************************************************************)
(* A model of the fs_fs back end (libsvn_fs_fs/fs_fs.c): the repository    *)
(* files `current', revs/<rev>, revprops/<rev>, the transaction            *)
(* directories, the write lock, and the processes that create, mutate,     *)
(* commit and abort transactions.                                          *)
(*                                                                         *)
(* Conventions.                                                            *)
(*  - A file is a record [exists, data]; data is a sequence of items and   *)
(*    the offset of an item is the number of items before it.              *)
(*  - An optional value is a sequence of length 0 or 1.                    *)
(*  - A transaction id "<base>-<i>" is the pair <<base, i>>.               *)
(*  - A node or copy key is <<prefix, n>> with prefix "_" for the keys     *)
(*    that are local to a transaction ("_3") and "" for permanent ones.    *)
(*  - A path is the sequence of its components: "/" is <<>>.               *)
(***************************************************************************)
EXTENDS Integers, Sequences, FiniteSets, TLC

\* ---------------------------------------------------------------- bounds
Procs == {"p1", "p2"}

\* transactions created in one behaviour
MaxTxns == 2

\* svn_fs_fs__commit is not called again on a transaction whose proto-rev
\* file has grown beyond this many items
MaxProtoLen == 2

\* nodes created by svn_fs_fs__create_node in one transaction
MaxNodes == 1

\* failures in one behaviour: calls of the file layer that fail, and
\* process deaths
MaxFaults == 1

\* ------------------------------------------------------------ identifiers
NoTxn == <<>>

\* every transaction commits at most one revision
Revs == 0 .. MaxTxns

\* "<base>-<i>": create_txn_dir tries i = 1, 2, ... and takes the first free
TxnIds == (0 .. (MaxTxns - 1)) \X (1 .. MaxTxns)

\* svn_fs_fs__id_txn_create
IdTxnCreate(node, copy, txn) ==
  [node |-> node, copy |-> copy, txn |-> txn, rev |-> -1, offset |-> -1]

\* svn_fs_fs__id_rev_create
IdRevCreate(node, copy, rev, offset) ==
  [node |-> node, copy |-> copy, txn |-> NoTxn, rev |-> rev, offset |-> offset]

\* svn_fs_fs__id_txn_id: the transaction of a transaction-scoped id
IdTxnId(id) == id.txn

IsTxnId(id) == IdTxnId(id) # NoTxn

\* svn_fs_fs__add_keys on the numeric value of the keys
AddKeys(a, b) == a + b

\* ------------------------------------------------------------------ files
NoFile == [exists |-> FALSE, data |-> <<>>]

File(items) == [exists |-> TRUE, data |-> items]

\* get_file_offset on a file opened for append
FileOffset(f) == Len(f.data)

NoRep == <<>>

MutableRep(txn) == <<[txn |-> txn, revision |-> -1, offset |-> -1]>>

\* the contents of revs/0 written by svn_fs_fs__write_revision_zero:
\* an empty directory listing, the root node-revision, no changes
RootId0 == IdRevCreate(<<"", 0>>, <<"", 0>>, 0, 1)

RevisionZero ==
  File(<< [t |-> "rep", what |-> "dir", entries |-> <<>>],
          [t |-> "noderev",
           nr |-> [id |-> RootId0, kind |-> "dir", pred |-> <<>>, count |-> 0,
                   data_rep |-> <<[txn |-> NoTxn, revision |-> 0, offset |-> 0]>>,
                   prop_rep |-> NoRep, cpath |-> <<>>]],
          [t |-> "trailer", root |-> 1, changes |-> 2] >>)

\* ------------------------------------------------------------------ state
VARIABLES
  current,    \* the `current' file: [rev, node, copy]
  revs,       \* revs/<rev>
  revprops,   \* revprops/<rev>
  txns,       \* transactions/<id>.txn/, or a record with exists = FALSE
  lock,       \* the process holding the advisory lock on write-lock, or "none"
  pc,         \* where each process is
  txnh,       \* the svn_fs_txn_t each process holds: <<>> or <<[id, base_rev]>>
  loc,        \* locals of svn_fs_fs__commit of each process
  result,     \* what the last svn_fs_fs__commit of each process returned
  xdev,       \* whether transactions/ and the repository are on two devices
  faults,     \* failures so far
  ntxns,      \* transactions created so far
  hist,       \* history, for the properties only: by[r], pub[r] the
              \* transaction whose commit last placed revs/r and published
              \* r in `current'; mid the transactions whose commit stopped
              \* between the two
  u           \* the files, arguments and locals of the one function that the
              \* specifications of single functions run; <<>> in Spec

fsvars == <<current, revs, revprops, txns, lock, pc, txnh, loc, result, xdev,
            faults, ntxns, hist>>

vars == <<fsvars, u>>

repo == <<current, revs, revprops>>

NoDir == [exists |-> FALSE, rev |-> NoFile, changes |-> NoFile, props |-> NoFile,
          next_ids |-> [node |-> 0, copy |-> 0], nodes |-> <<>>,
          children |-> <<>>, nodeprops |-> <<>>]

NoLoc == [old_rev |-> -1, new_rev |-> -1, start_node |-> -1, start_copy |-> -1,
          new_root |-> <<>>, changes_off |-> -1, promoted |-> FALSE,
          \* for the properties only: youngest and faults when the call
          \* started, and whether an earlier commit of the transaction
          \* stopped between the promotion and the replacement of `current'
          young |-> -1, faults0 |-> 0, again |-> FALSE]

NoHist == [by |-> [r \in Revs |-> <<>>], pub |-> [r \in Revs |-> <<>>],
           mid |-> {}]

\* svn_fs_fs__create: "0 1 1\n" in current, then revision zero
Create ==
  /\ current = [rev |-> 0, node |-> 1, copy |-> 1]
  /\ revs = [r \in Revs |-> IF r = 0 THEN RevisionZero ELSE NoFile]
  /\ revprops = [r \in Revs |-> IF r = 0 THEN File(<<>>) ELSE NoFile]
  /\ txns = [t \in TxnIds |-> NoDir]
  /\ lock = "none"
  /\ pc = [p \in Procs |-> "idle"]
  /\ txnh = [p \in Procs |-> <<>>]
  /\ loc = [p \in Procs |-> NoLoc]
  /\ result = [p \in Procs |-> "none"]
  /\ xdev \in BOOLEAN
  /\ faults = 0
  /\ ntxns = 0
  /\ hist = NoHist

Init == Create /\ u = <<>>

\* ------------------------------------------------------- reading the files
RECURSIVE SeqOf(_)
\* the order in which a hash is iterated (one fixed order)
SeqOf(S) ==
  IF S = {} THEN <<>>
  ELSE LET x == CHOOSE y \in S : TRUE IN <<x>> \o SeqOf(S \ {x})

\* the item of a file at an offset; <<>> when there is none
ItemAt(f, off) ==
  IF f.exists /\ off >= 0 /\ off < Len(f.data) THEN <<f.data[off + 1]>> ELSE <<>>

\* get_root_changes_offset: the trailer is the last line of the file
Trailer(f) ==
  IF f.exists /\ Len(f.data) > 0 /\ f.data[Len(f.data)].t = "trailer"
    THEN <<f.data[Len(f.data)]>> ELSE <<>>

\* svn_fs_fs__rev_get_root: the id of the node-revision at the root offset
RevGetRoot(f) ==
  IF Trailer(f) = <<>> THEN <<>>
  ELSE LET it == ItemAt(f, Trailer(f)[1].root)
       IN IF it # <<>> /\ it[1].t = "noderev" THEN <<it[1].nr.id>> ELSE <<>>

\* get_youngest: the first number of `current'
Youngest == current.rev

\* svn_fs_fs__get_node_revision: the node file of a transaction for a
\* transaction-scoped id, the revision file at (rev, offset) otherwise
GetNodeRevision(id, nodes, rv) ==
  IF IsTxnId(id)
    THEN IF <<id.node, id.copy>> \in DOMAIN nodes
           THEN <<nodes[<<id.node, id.copy>>]>> ELSE <<>>
    ELSE IF id.rev \in Revs
           THEN LET it == ItemAt(rv[id.rev], id.offset)
                IN IF it # <<>> /\ it[1].t = "noderev" THEN <<it[1].nr>> ELSE <<>>
           ELSE <<>>

RECURSIVE ApplyEdits(_, _)
\* svn_hash_read_incremental: the edits appended to a children file
ApplyEdits(entries, edits) ==
  IF edits = <<>> THEN entries
  ELSE LET e == Head(edits)
           next == IF e.del
                     THEN [n \in DOMAIN entries \ {e.name} |-> entries[n]]
                     ELSE [n \in DOMAIN entries \cup {e.name} |->
                             IF n = e.name THEN e.val ELSE entries[n]]
       IN ApplyEdits(next, Tail(edits))

\* get_dir_contents: [err, entries]
GetDirContents(nr, d, rv) ==
  IF nr.data_rep # NoRep /\ nr.data_rep[1].txn # NoTxn
    THEN LET k == <<nr.id.node, nr.id.copy>>
         IN IF IsTxnId(nr.id) /\ k \in DOMAIN d.children
              THEN [err |-> FALSE,
                    entries |-> ApplyEdits(d.children[k].base, d.children[k].edits)]
              ELSE [err |-> TRUE, entries |-> <<>>]
  ELSE IF nr.data_rep # NoRep
    THEN LET r == nr.data_rep[1]
             it == IF r.revision \in Revs THEN ItemAt(rv[r.revision], r.offset)
                   ELSE <<>>
         IN IF it # <<>> /\ it[1].t = "rep" /\ it[1].what = "dir"
              THEN [err |-> FALSE, entries |-> it[1].entries]
              ELSE [err |-> TRUE, entries |-> <<>>]
  ELSE [err |-> FALSE, entries |-> <<>>]

\* ------------------------------------------------------ folding the changes
\* svn_path_is_child
PathIsChild(parent, child) ==
  Len(child) > Len(parent) /\ SubSeq(child, 1, Len(parent)) = parent

\* apr_hash_set: a NULL value (<<>>) removes the key
HashSet(h, k, v) ==
  IF v = <<>> THEN [x \in DOMAIN h \ {k} |-> h[x]]
  ELSE [x \in DOMAIN h \cup {k} |-> IF x = k THEN v[1] ELSE h[x]]

\* fold_change on st = [err, changes, copyfrom]
FoldChange(st, c) ==
  IF c.path \in DOMAIN st.changes
    THEN
      LET old == st.changes[c.path]
          cfs == IF c.path \in DOMAIN st.copyfrom
                   THEN <<st.copyfrom[c.path]>> ELSE <<>>
          bad == \/ (c.id = <<>> /\ c.kind # "reset")
                 \/ (c.id # <<>> /\ old.id # c.id /\ old.kind # "delete")
                 \/ (old.kind = "delete"
                       /\ c.kind \notin {"replace", "reset", "add"})
          new == CASE c.kind = "reset" -> <<>>
                   [] c.kind = "delete" ->
                        IF old.kind = "add" THEN <<>>
                        ELSE <<[old EXCEPT !.kind = "delete",
                                           !.text_mod = c.text_mod,
                                           !.prop_mod = c.prop_mod]>>
                   [] c.kind \in {"add", "replace"} ->
                        <<[old EXCEPT !.kind = "replace", !.id = c.id,
                                      !.text_mod = c.text_mod,
                                      !.prop_mod = c.prop_mod]>>
                   [] OTHER ->
                        <<[old EXCEPT !.text_mod = old.text_mod \/ c.text_mod,
                                      !.prop_mod = old.prop_mod \/ c.prop_mod]>>
          ncf == CASE c.kind \in {"reset", "delete"} -> <<>>
                   [] c.kind \in {"add", "replace"} -> <<c.cf>>
                   [] OTHER -> cfs
      IN IF bad THEN [st EXCEPT !.err = TRUE]
         ELSE [st EXCEPT !.changes = HashSet(st.changes, c.path, new),
                         !.copyfrom = HashSet(st.copyfrom, c.path, ncf)]
    ELSE
      [st EXCEPT
         !.changes = HashSet(st.changes, c.path,
                             <<[id |-> c.id, kind |-> c.kind,
                                text_mod |-> c.text_mod,
                                prop_mod |-> c.prop_mod]>>),
         !.copyfrom = HashSet(st.copyfrom, c.path, <<c.cf>>)]

RECURSIVE FetchAllChanges(_, _, _)
\* fetch_all_changes: fold the entries of a changes file in order
FetchAllChanges(st, cs, prefolded) ==
  IF cs = <<>> \/ st.err THEN st
  ELSE LET c == Head(cs)
           f == FoldChange(st, c)
           g == IF ~f.err /\ c.kind \in {"delete", "replace"} /\ ~prefolded
                  THEN [f EXCEPT !.changes =
                          [q \in {x \in DOMAIN f.changes :
                                    x = c.path \/ ~PathIsChild(c.path, x)}
                             |-> f.changes[q]]]
                  ELSE f
       IN FetchAllChanges(g, Tail(cs), prefolded)

NoChanges == [err |-> FALSE, changes |-> <<>>, copyfrom |-> <<>>]

\* svn_fs_fs__txn_changes_fetch
TxnChangesFetch(d) ==
  IF ~d.changes.exists THEN [NoChanges EXCEPT !.err = TRUE]
  ELSE FetchAllChanges(NoChanges, d.changes.data, FALSE)

\* ------------------------------------------------------ writing a revision
\* the key of a node or copy key with the "_" taken off and no start added
FinalKeyUnshifted(key, start) ==
  IF key[1] = "_" THEN <<"", key[2]>> ELSE key

\* the permanent key of a node or copy key: "_k" becomes start + k
FinalKey(key, start) ==
  IF key[1] = "_" THEN <<"", AddKeys(start, key[2])>> ELSE key

RECURSIVE WriteFinalRev(_, _, _, _, _, _, _)
RECURSIVE WriteChildren(_, _, _, _, _, _, _, _)

\* write_final_rev on w = [err, file, nodes, new_id]: FILE is the proto-rev
\* file, NODES the node files of the transaction, D its directory, RV revs/
WriteFinalRev(w, d, rv, id, rev, start_node, start_copy) ==
  IF ~IsTxnId(id) THEN [w EXCEPT !.new_id = <<>>]
  ELSE
    LET got == GetNodeRevision(id, w.nodes, rv) IN
    IF got = <<>> THEN [w EXCEPT !.err = TRUE, !.new_id = <<>>]
    ELSE
      LET nr0 == got[1]
          dc == IF nr0.kind = "dir" THEN GetDirContents(nr0, d, rv)
                ELSE [err |-> FALSE, entries |-> <<>>]
          \* the children first
          wc == IF nr0.kind = "dir" /\ ~dc.err
                  THEN WriteChildren([w EXCEPT !.new_id = <<>>], d, rv,
                                     SeqOf(DOMAIN dc.entries), dc.entries,
                                     rev, start_node, start_copy)
                  ELSE [w |-> w, entries |-> dc.entries]
          w1 == wc.w
          mutable_data == nr0.data_rep # NoRep /\ nr0.data_rep[1].txn # NoTxn
          \* the directory listing, or the file's data rep moved to REV
          f1 == IF nr0.kind = "dir" /\ mutable_data
                  THEN Append(w1.file, [t |-> "rep", what |-> "dir",
                                        entries |-> wc.entries])
                  ELSE w1.file
          dr == IF ~mutable_data THEN nr0.data_rep
                ELSE IF nr0.kind = "dir"
                  THEN <<[txn |-> NoTxn, revision |-> rev,
                          offset |-> Len(w1.file)]>>
                  ELSE <<[nr0.data_rep[1] EXCEPT !.txn = NoTxn,
                                                 !.revision = rev]>>
          mutable_prop == nr0.prop_rep # NoRep /\ nr0.prop_rep[1].txn # NoTxn
          k == <<nr0.id.node, nr0.id.copy>>
          noprops == mutable_prop /\ ~(IsTxnId(nr0.id) /\ k \in DOMAIN d.nodeprops)
          f2 == IF mutable_prop /\ ~noprops
                  THEN Append(f1, [t |-> "rep", what |-> "props",
                                   props |-> d.nodeprops[k]])
                  ELSE f1
          pr == IF mutable_prop
                  THEN <<[txn |-> NoTxn, revision |-> rev, offset |-> Len(f1)]>>
                  ELSE nr0.prop_rep
          my_offset == Len(f2)
          new_id == IdRevCreate(FinalKey(nr0.id.node, start_node),
                                FinalKey(nr0.id.copy, start_copy),
                                rev, my_offset)
          nr == [nr0 EXCEPT !.id = new_id, !.data_rep = dr, !.prop_rep = pr]
      IN IF dc.err \/ w1.err \/ noprops
           THEN [w1 EXCEPT !.err = TRUE, !.new_id = <<>>,
                            !.file = IF dc.err \/ w1.err THEN w1.file ELSE f1]
           ELSE [err |-> FALSE,
                 file |-> Append(f2, [t |-> "noderev", nr |-> nr]),
                 \* svn_fs_fs__put_node_revision (fs, id, noderev)
                 nodes |-> [w1.nodes EXCEPT ![<<id.node, id.copy>>] = nr],
                 new_id |-> <<new_id>>]

\* the loop of write_final_rev over the entries of a directory
WriteChildren(w, d, rv, names, entries, rev, start_node, start_copy) ==
  IF names = <<>> \/ w.err THEN [w |-> w, entries |-> entries]
  ELSE
    LET n == Head(names)
        w1 == WriteFinalRev(w, d, rv, entries[n].id, rev, start_node, start_copy)
        e1 == IF w1.new_id # <<>> /\ w1.new_id[1].rev = rev
                THEN [entries EXCEPT ![n].id = w1.new_id[1]]
                ELSE entries
    IN WriteChildren(w1, d, rv, Tail(names), e1, rev, start_node, start_copy)

RECURSIVE WriteChangeEntries(_, _, _, _, _)
\* the loop of write_final_changed_path_info; err is "none", "error" or
\* "crash" (a NULL id or a NULL copyfrom string is dereferenced)
WriteChangeEntries(out, paths, fold, nodes, rv) ==
  IF paths = <<>> \/ out.err # "none" THEN out
  ELSE
    LET path == Head(paths)
        change == fold.changes[path]
        subst == change.kind # "delete"
                   /\ (change.id = <<>> \/ ~IsTxnId(change.id[1]))
        got == IF subst /\ change.id # <<>>
                 THEN GetNodeRevision(change.id[1], nodes, rv) ELSE <<>>
        id == IF subst /\ got # <<>> THEN <<got[1].id>> ELSE change.id
        nocf == path \notin DOMAIN fold.copyfrom
        err == IF subst /\ change.id = <<>> THEN "crash"
               ELSE IF subst /\ got = <<>> THEN "error"
               ELSE IF nocf THEN "crash"
               ELSE "none"
        item == [t |-> "change", id |-> id, kind |-> change.kind,
                 text_mod |-> change.text_mod, prop_mod |-> change.prop_mod,
                 path |-> path,
                 cf |-> IF nocf THEN <<>> ELSE fold.copyfrom[path]]
    IN WriteChangeEntries(
         IF err = "none" THEN [out EXCEPT !.file = Append(out.file, item)]
         ELSE [out EXCEPT !.err = err],
         Tail(paths), fold, nodes, rv)

\* write_final_changed_path_info: [err, file, offset]
WriteFinalChangedPathInfo(file, d, rv) ==
  LET fold == TxnChangesFetch(d)
      start == [err |-> "none", file |-> file, offset |-> Len(file)]
  IN IF fold.err THEN [start EXCEPT !.err = "error"]
     ELSE WriteChangeEntries(start, SeqOf(DOMAIN fold.changes), fold,
                             d.nodes, rv)

\* move_into_place under the outcome FAIL of the file layer: "none", "before"
\* (stat, chmod, rename or copy fails) or "after" (the flush of the copy or of
\* the directory fails).  CROSS: source and destination are on two devices.
\* In the cross-device branch the rename's error is cleared and then
\* returned: the caller receives a non-null error.
MoveIntoPlace(src, dst, perms, cross, fail) ==
  IF ~perms.exists \/ ~src.exists \/ fail = "before"
    THEN [err |-> TRUE, src |-> src, dst |-> dst]
  ELSE IF cross
    THEN [err |-> TRUE, src |-> src, dst |-> src]
  ELSE [err |-> (fail = "after"), src |-> NoFile, dst |-> src]

\* ------------------------------------------------- transaction operations
RootKey == << <<"", 0>>, <<"", 0>> >>

NodeKey(k) == << <<"_", k>>, <<"", 0>> >>

\* the name under which node k is entered in the root directory
NameOf(k) == IF k = 0 THEN "f" ELSE IF k = 1 THEN "g" ELSE "h"

Txn(p) == txnh[p][1].id

Dir(p) == txns[Txn(p)]

Idle(p) == pc[p] = "idle"

HasTxn(p) == Idle(p) /\ txnh[p] # <<>> /\ Dir(p).exists

FreeUniq(B) == {i \in 1 .. MaxTxns : ~txns[<<B, i>>].exists}

\* create_new_txn_noderev_from_rev
NewTxnNoderev(nr, T) ==
  [nr EXCEPT !.pred = <<nr.id>>, !.count = nr.count + 1,
             !.id = IdTxnCreate(nr.id.node, nr.id.copy, T)]

\* svn_fs_fs__create_txn: the first free "<B>-<i>.txn", the root node, an
\* empty rev file, an empty changes file and "0 0" in next-ids
CreateTxn(p, B) ==
  /\ UNCHANGED u
  /\ Idle(p) /\ txnh[p] = <<>>
  /\ ntxns < MaxTxns
  /\ ntxns' = ntxns + 1
  /\ B \in 0 .. Youngest
  /\ RevGetRoot(revs[B]) # <<>>
  /\ LET i == CHOOSE j \in FreeUniq(B) : \A m \in FreeUniq(B) : j <= m
         T == <<B, i>>
         root == GetNodeRevision(RevGetRoot(revs[B])[1], <<>>, revs)[1]
         nr == NewTxnNoderev(root, T)
     IN /\ txns' = [txns EXCEPT ![T] =
                      [exists |-> TRUE, rev |-> File(<<>>),
                       changes |-> File(<<>>), props |-> NoFile,
                       next_ids |-> [node |-> 0, copy |-> 0],
                       nodes |-> [x \in {<<nr.id.node, nr.id.copy>>} |-> nr],
                       children |-> <<>>, nodeprops |-> <<>>]]
        /\ txnh' = [txnh EXCEPT ![p] = <<[id |-> T, base_rev |-> B]>>]
  /\ UNCHANGED <<current, revs, revprops, lock, pc, loc, result, xdev, faults, hist>>

\* get_txn_proplist opens the props file with APR_CREATE
GetTxnProplist(d) == IF d.props.exists THEN d.props ELSE File(<<>>)

\* svn_fs_fs__change_txn_prop (the property svn:log)
ChangeTxnProp(p) ==
  /\ UNCHANGED u
  /\ HasTxn(p)
  /\ GetTxnProplist(Dir(p)).data = <<>>
  /\ txns' = [txns EXCEPT ![Txn(p)].props = File(<<"svn:log">>)]
  /\ UNCHANGED <<current, revs, revprops, lock, pc, txnh, loc, result, xdev, ntxns,
                 faults, hist>>

\* svn_fs_fs__create_node of a file: get_new_txn_node_id takes "_<k>" from
\* next-ids, then the node file is written
CreateNode(p) ==
  /\ UNCHANGED u
  /\ HasTxn(p)
  /\ Dir(p).next_ids.node < MaxNodes
  /\ LET d == Dir(p)
         k == d.next_ids.node
         id == IdTxnCreate(<<"_", k>>, <<"", 0>>, Txn(p))
         nr == [id |-> id, kind |-> "file", pred |-> <<>>, count |-> 0,
                data_rep |-> NoRep, prop_rep |-> NoRep, cpath |-> <<NameOf(k)>>]
     IN txns' = [txns EXCEPT ![Txn(p)] =
                   [d EXCEPT !.next_ids.node = k + 1,
                             !.nodes = [x \in DOMAIN d.nodes \cup {NodeKey(k)} |->
                                          IF x = NodeKey(k) THEN nr ELSE d.nodes[x]]]]
  /\ UNCHANGED <<current, revs, revprops, lock, pc, txnh, loc, result, xdev, ntxns,
                 faults, hist>>

\* svn_fs_fs__set_entry: enter node k in the root directory of the transaction
SetEntry(p, k) ==
  /\ UNCHANGED u
  /\ HasTxn(p)
  /\ LET d == Dir(p)
     IN /\ RootKey \in DOMAIN d.nodes /\ NodeKey(k) \in DOMAIN d.nodes
        /\ IsTxnId(d.nodes[RootKey].id) /\ IsTxnId(d.nodes[NodeKey(k)].id)
        /\ LET parent == d.nodes[RootKey]
               old == GetDirContents(parent, d, revs)
               mutable == parent.data_rep # NoRep /\ parent.data_rep[1].txn # NoTxn
               edit == [del |-> FALSE, name |-> NameOf(k),
                        val |-> [kind |-> "file", id |-> d.nodes[NodeKey(k)].id]]
               ch == IF mutable THEN d.children[RootKey]
                     ELSE [base |-> old.entries, edits |-> <<>>]
           IN /\ ~old.err
              /\ NameOf(k) \notin DOMAIN old.entries
              /\ txns' = [txns EXCEPT ![Txn(p)] =
                   [d EXCEPT
                      !.children = [x \in {RootKey} |->
                                      [ch EXCEPT !.edits = Append(ch.edits, edit)]],
                      !.nodes = [d.nodes EXCEPT ![RootKey].data_rep =
                                   IF mutable THEN parent.data_rep
                                   ELSE MutableRep(Txn(p))]]]
  /\ UNCHANGED <<current, revs, revprops, lock, pc, txnh, loc, result, xdev, ntxns,
                 faults, hist>>

\* svn_fs_fs__add_change: append the "add" of node k to the changes file
AddChange(p, k) ==
  /\ UNCHANGED u
  /\ HasTxn(p)
  /\ LET d == Dir(p)
     IN /\ RootKey \in DOMAIN d.nodes /\ NodeKey(k) \in DOMAIN d.nodes
        /\ IsTxnId(d.nodes[NodeKey(k)].id)
        /\ ~GetDirContents(d.nodes[RootKey], d, revs).err
        /\ NameOf(k) \in DOMAIN GetDirContents(d.nodes[RootKey], d, revs).entries
        /\ \A i \in 1 .. Len(d.changes.data) : d.changes.data[i].path # <<NameOf(k)>>
        /\ txns' = [txns EXCEPT ![Txn(p)].changes =
                      File(Append(d.changes.data,
                                  [path |-> <<NameOf(k)>>,
                                   id |-> <<d.nodes[NodeKey(k)].id>>,
                                   kind |-> "add", text_mod |-> TRUE,
                                   prop_mod |-> FALSE, cf |-> <<>>]))]
  /\ UNCHANGED <<current, revs, revprops, lock, pc, txnh, loc, result, xdev, ntxns,
                 faults, hist>>

\* svn_fs_fs__purge_txn called to abort the transaction
Abort(p) ==
  /\ UNCHANGED u
  /\ HasTxn(p)
  /\ txns' = [txns EXCEPT ![Txn(p)] = NoDir]
  /\ txnh' = [txnh EXCEPT ![p] = <<>>]
  /\ UNCHANGED <<current, revs, revprops, lock, pc, loc, result, xdev, ntxns, faults, hist>>

\* svn_fs_fs__set_revision_proplist: a temporary file beside revprops/<r> is
\* written and moved into place, with revs/<r> as the permissions reference
SetRevisionProplist(p, r) ==
  /\ UNCHANGED u
  /\ Idle(p)
  /\ r \in 0 .. Youngest
  /\ revprops[r] # File(<<"svn:log2">>)
  /\ LET m == MoveIntoPlace(File(<<"svn:log2">>), revprops[r], revs[r], FALSE, "none")
     IN revprops' = [revprops EXCEPT ![r] = m.dst]
  /\ UNCHANGED <<current, revs, txns, lock, pc, txnh, loc, result, xdev, ntxns, faults, hist>>

\* ------------------------------------------------------ svn_fs_fs__commit
Base(p) == txnh[p][1].base_rev

CommitPcs == {"c_lock", "c_youngest", "c_check", "c_ids", "c_open",
              "c_final_rev", "c_changes", "c_trailer", "c_move_rev",
              "c_move_props", "c_current", "c_purge", "c_release"}

\* a return of svn_fs_fs__commit; an SVN_ERR return leaves the subpool, and
\* with it the lock, to the caller's pool
Return(p, res, lk) ==
  /\ pc' = [pc EXCEPT ![p] = "returned"]
  /\ result' = [result EXCEPT ![p] = res]
  /\ lock' = lk

Goto(p, next) ==
  /\ pc' = [pc EXCEPT ![p] = next]
  /\ UNCHANGED <<result, lock>>

\* the history when the commit of P stops
Stopped(p, h) ==
  IF loc[p].promoted /\ current.rev # loc[p].new_rev
    THEN [h EXCEPT !.mid = @ \cup {Txn(p)}] ELSE h

\* the caller invokes svn_fs_fs__commit on its transaction
StartCommit(p) ==
  /\ UNCHANGED u
  /\ Idle(p) /\ txnh[p] # <<>>
  /\ Dir(p).exists => Len(Dir(p).rev.data) <= MaxProtoLen
  /\ loc' = [loc EXCEPT ![p] = [NoLoc EXCEPT !.young = Youngest,
                                             !.faults0 = faults,
                                             !.again = Txn(p) \in hist.mid]]
  /\ pc' = [pc EXCEPT ![p] = "c_lock"]
  /\ UNCHANGED <<current, revs, revprops, txns, lock, txnh, result, xdev, ntxns,
                 faults, hist>>

\* a faulty get_write_lock: the lock is shared, not exclusive
GetWriteLockShared(p) ==
  /\ UNCHANGED u
  /\ pc[p] = "c_lock"
  /\ lock' = p
  /\ pc' = [pc EXCEPT ![p] = "c_youngest"]
  /\ UNCHANGED <<current, revs, revprops, txns, txnh, loc, result, xdev, ntxns,
                 faults, hist>>

\* get_write_lock: svn_io_file_lock2 blocks until the exclusive lock is free
GetWriteLock(p) ==
  /\ UNCHANGED u
  /\ pc[p] = "c_lock"
  /\ lock = "none"
  /\ lock' = p
  /\ pc' = [pc EXCEPT ![p] = "c_youngest"]
  /\ UNCHANGED <<current, revs, revprops, txns, txnh, loc, result, xdev, ntxns,
                 faults, hist>>

\* a faulty step: old_rev is taken from the transaction, not from `current'
YoungestRevOfBase(p) ==
  /\ UNCHANGED u
  /\ pc[p] = "c_youngest"
  /\ loc' = [loc EXCEPT ![p].old_rev = Base(p)]
  /\ pc' = [pc EXCEPT ![p] = "c_check"]
  /\ UNCHANGED <<current, revs, revprops, txns, lock, txnh, result, xdev, ntxns,
                 faults, hist>>

\* svn_fs_fs__youngest_rev (&old_rev, ...)
YoungestRev(p) ==
  /\ UNCHANGED u
  /\ pc[p] = "c_youngest"
  /\ loc' = [loc EXCEPT ![p].old_rev = Youngest]
  /\ pc' = [pc EXCEPT ![p] = "c_check"]
  /\ UNCHANGED <<current, revs, revprops, txns, lock, txnh, result, xdev, ntxns,
                 faults, hist>>

\* a faulty base check: only a transaction newer than `current' is refused
TxnOutOfDateNewer(base_rev, old_rev) == base_rev > old_rev

\* txn->base_rev != old_rev
TxnOutOfDate(base_rev, old_rev) == base_rev # old_rev

\* the base check: out of date destroys the subpool and returns
CheckBase(p) ==
  /\ UNCHANGED u
  /\ pc[p] = "c_check"
  /\ IF TxnOutOfDate(Base(p), loc[p].old_rev)
       THEN Return(p, "out-of-date", "none")
       ELSE Goto(p, "c_ids")
  /\ UNCHANGED <<current, revs, revprops, txns, txnh, loc, xdev, ntxns, faults, hist>>

\* a faulty numbering: the new revision takes the number of the old one
NewRevSame(old_rev) == old_rev

\* new_rev = old_rev + 1
NewRev(old_rev) == old_rev + 1

\* get_next_revision_ids, and new_rev
GetNextRevisionIds(p) ==
  /\ UNCHANGED u
  /\ pc[p] = "c_ids"
  /\ loc' = [loc EXCEPT ![p].start_node = current.node,
                        ![p].start_copy = current.copy,
                        ![p].new_rev = NewRev(loc[p].old_rev)]
  /\ pc' = [pc EXCEPT ![p] = "c_open"]
  /\ UNCHANGED <<current, revs, revprops, txns, lock, txnh, result, xdev, ntxns,
                 faults, hist>>

\* svn_io_file_open (proto, APR_WRITE | APR_APPEND): no APR_CREATE
OpenProtoRev(p) ==
  /\ UNCHANGED u
  /\ pc[p] = "c_open"
  /\ IF Dir(p).rev.exists
       THEN Goto(p, "c_final_rev")
       ELSE Return(p, "error", lock)
  /\ UNCHANGED <<current, revs, revprops, txns, txnh, loc, xdev, ntxns, faults, hist>>

\* write_final_rev from the root "0.0.t<txn>"
WriteFinalRevStep(p) ==
  /\ UNCHANGED u
  /\ pc[p] = "c_final_rev"
  /\ LET d == Dir(p)
         w == WriteFinalRev([err |-> FALSE, file |-> d.rev.data,
                             nodes |-> d.nodes, new_id |-> <<>>],
                            d, revs,
                            IdTxnCreate(<<"", 0>>, <<"", 0>>, Txn(p)),
                            loc[p].new_rev, loc[p].start_node, loc[p].start_copy)
     IN /\ txns' = [txns EXCEPT ![Txn(p)].rev = File(w.file),
                                ![Txn(p)].nodes = w.nodes]
        /\ IF w.err \/ w.new_id = <<>>
             THEN Return(p, "error", lock) /\ UNCHANGED loc
             ELSE /\ Goto(p, "c_changes")
                  /\ loc' = [loc EXCEPT ![p].new_root = w.new_id]
  /\ UNCHANGED <<current, revs, revprops, txnh, xdev, ntxns, faults, hist>>

\* write_final_changed_path_info; a NULL dereference kills the process
WriteChangesStep(p) ==
  /\ UNCHANGED u
  /\ pc[p] = "c_changes"
  /\ LET d == Dir(p)
         r == WriteFinalChangedPathInfo(d.rev.data, d, revs)
     IN /\ txns' = [txns EXCEPT ![Txn(p)].rev = File(r.file)]
        /\ CASE r.err = "none" ->
                  /\ Goto(p, "c_trailer")
                  /\ loc' = [loc EXCEPT ![p].changes_off = r.offset]
             [] r.err = "error" ->
                  Return(p, "error", lock) /\ UNCHANGED loc
             [] OTHER ->
                  /\ pc' = [pc EXCEPT ![p] = "crashed"]
                  /\ lock' = "none"
                  /\ UNCHANGED <<result, loc>>
  /\ UNCHANGED <<current, revs, revprops, txnh, xdev, ntxns, faults, hist>>

\* a faulty step: the final line is written and the file is at once put
\* in revs/
WriteTrailerInPlace(p) ==
  /\ UNCHANGED u
  /\ pc[p] = "c_trailer"
  /\ revs' = [revs EXCEPT ![loc[p].new_rev] =
                File(Append(Dir(p).rev.data,
                            [t |-> "trailer", root |-> loc[p].new_root[1].offset,
                             changes |-> loc[p].changes_off]))]
  /\ pc' = [pc EXCEPT ![p] = "c_move_rev"]
  /\ UNCHANGED <<current, revprops, txns, lock, txnh, loc, result, xdev, ntxns,
                 faults, hist>>

\* the final line "<root offset> <changes offset>", flush and close
WriteTrailer(p) ==
  /\ UNCHANGED u
  /\ pc[p] = "c_trailer"
  /\ txns' = [txns EXCEPT ![Txn(p)].rev =
                File(Append(Dir(p).rev.data,
                            [t |-> "trailer", root |-> loc[p].new_root[1].offset,
                             changes |-> loc[p].changes_off]))]
  /\ pc' = [pc EXCEPT ![p] = "c_move_rev"]
  /\ UNCHANGED <<current, revs, revprops, lock, txnh, loc, result, xdev, ntxns,
                 faults, hist>>

\* the outcomes of the file layer open to a step
FailKinds(n) == IF n < MaxFaults THEN {"none", "before", "after"} ELSE {"none"}

\* move_into_place (proto-rev, revs/<new>, revs/<old>)
PromoteRev(p) ==
  /\ UNCHANGED u
  /\ pc[p] = "c_move_rev"
  /\ \E fail \in FailKinds(faults) :
       LET new == loc[p].new_rev
           m == MoveIntoPlace(Dir(p).rev, revs[new], revs[loc[p].old_rev],
                              xdev, fail)
           placed == m.dst # revs[new] \/ m.src # Dir(p).rev
           h == IF placed THEN [hist EXCEPT !.by[new] = <<Txn(p)>>] ELSE hist
       IN /\ revs' = [revs EXCEPT ![new] = m.dst]
          /\ txns' = [txns EXCEPT ![Txn(p)].rev = m.src]
          /\ faults' = IF fail = "none" THEN faults ELSE faults + 1
          /\ loc' = [loc EXCEPT ![p].promoted = placed]
          /\ IF m.err
               THEN /\ Return(p, "error", lock)
                    /\ hist' = IF placed THEN [h EXCEPT !.mid = @ \cup {Txn(p)}]
                               ELSE h
               ELSE Goto(p, "c_move_props") /\ hist' = h
  /\ UNCHANGED <<current, revprops, txnh, xdev, ntxns>>

\* a faulty step: the props file is not moved to revprops/
PromoteRevpropsSkipped(p) ==
  /\ UNCHANGED u
  /\ pc[p] = "c_move_props"
  /\ pc' = [pc EXCEPT ![p] = "c_current"]
  /\ UNCHANGED <<current, revs, revprops, txns, lock, txnh, loc, result, xdev,
                 ntxns, faults, hist>>

\* move_into_place (props, revprops/<new>, revs/<old>)
PromoteRevprops(p) ==
  /\ UNCHANGED u
  /\ pc[p] = "c_move_props"
  /\ \E fail \in FailKinds(faults) :
       LET new == loc[p].new_rev
           m == MoveIntoPlace(Dir(p).props, revprops[new], revs[loc[p].old_rev],
                              xdev, fail)
       IN /\ revprops' = [revprops EXCEPT ![new] = m.dst]
          /\ txns' = [txns EXCEPT ![Txn(p)].props = m.src]
          /\ faults' = IF fail = "none" THEN faults ELSE faults + 1
          /\ IF m.err
               THEN Return(p, "error", lock) /\ hist' = Stopped(p, hist)
               ELSE Goto(p, "c_current") /\ hist' = hist
  /\ UNCHANGED <<current, revs, txnh, loc, xdev, ntxns>>

\* write_final_current: the new line is written to a unique temporary file
\* beside `current' and moved into place
WriteFinalCurrent(p) ==
  /\ UNCHANGED u
  /\ pc[p] = "c_current"
  /\ \E fail \in FailKinds(faults) :
       LET line == [rev |-> loc[p].new_rev,
                    node |-> AddKeys(loc[p].start_node, Dir(p).next_ids.node),
                    copy |-> AddKeys(loc[p].start_copy, Dir(p).next_ids.copy)]
           m == MoveIntoPlace(File(<<line>>), File(<<current>>), File(<<current>>),
                              FALSE, fail)
           h == IF m.dst.data[1] # current
                  THEN [hist EXCEPT !.pub[line.rev] = <<Txn(p)>>]
                  ELSE [hist EXCEPT !.mid = IF m.err /\ loc[p].promoted
                                              THEN @ \cup {Txn(p)} ELSE @]
       IN /\ current' = m.dst.data[1]
          /\ faults' = IF fail = "none" THEN faults ELSE faults + 1
          /\ hist' = h
          /\ IF m.err THEN Return(p, "error", lock) ELSE Goto(p, "c_purge")
  /\ UNCHANGED <<revs, revprops, txns, txnh, loc, xdev, ntxns>>

\* svn_fs_fs__purge_txn
PurgeTxn(p) ==
  /\ UNCHANGED u
  /\ pc[p] = "c_purge"
  /\ txns' = [txns EXCEPT ![Txn(p)] = NoDir]
  /\ pc' = [pc EXCEPT ![p] = "c_release"]
  /\ UNCHANGED <<current, revs, revprops, lock, txnh, loc, result, xdev, ntxns,
                 faults, hist>>

\* svn_pool_destroy (subpool) and the successful return
ReleaseLock(p) ==
  /\ UNCHANGED u
  /\ pc[p] = "c_release"
  /\ Return(p, "ok", "none")
  /\ UNCHANGED <<current, revs, revprops, txns, txnh, loc, xdev, ntxns, faults, hist>>

\* ------------------------------------------------- failures and recovery
\* a call of the file layer fails in a step that has changed nothing yet:
\* SVN_ERR returns the error at once
IOError(p) ==
  /\ UNCHANGED u
  /\ pc[p] \in {"c_lock", "c_youngest", "c_ids", "c_open", "c_final_rev",
                "c_changes", "c_trailer", "c_purge"}
  /\ faults < MaxFaults
  /\ faults' = faults + 1
  /\ Return(p, "error", lock)
  /\ UNCHANGED <<current, revs, revprops, txns, txnh, loc, xdev, ntxns, hist>>

\* the caller destroys the pool it passed to svn_fs_fs__commit: a subpool
\* left by an error return goes with it, and so does the lock.  After a
\* successful commit the transaction is closed.
PoolCleanup(p) ==
  /\ UNCHANGED u
  /\ pc[p] = "returned"
  /\ pc' = [pc EXCEPT ![p] = "idle"]
  /\ lock' = IF lock = p THEN "none" ELSE lock
  /\ txnh' = [txnh EXCEPT ![p] = IF Dir(p).exists THEN @ ELSE <<>>]
  /\ loc' = [loc EXCEPT ![p] = NoLoc]
  /\ result' = [result EXCEPT ![p] = "none"]
  /\ UNCHANGED <<current, revs, revprops, txns, xdev, ntxns, faults, hist>>

\* the process dies inside svn_fs_fs__commit; the kernel drops its lock
Crash(p) ==
  /\ UNCHANGED u
  /\ pc[p] \in CommitPcs
  /\ faults < MaxFaults
  /\ faults' = faults + 1
  /\ pc' = [pc EXCEPT ![p] = "crashed"]
  /\ lock' = IF lock = p THEN "none" ELSE lock
  /\ hist' = Stopped(p, hist)
  /\ UNCHANGED <<current, revs, revprops, txns, txnh, loc, result, xdev, ntxns>>

\* a new process takes the place of the dead one and reopens its
\* transaction with svn_fs_fs__open_txn, which reads the proplist
Restart(p) ==
  /\ UNCHANGED u
  /\ pc[p] = "crashed"
  /\ pc' = [pc EXCEPT ![p] = "idle"]
  /\ loc' = [loc EXCEPT ![p] = NoLoc]
  /\ IF Dir(p).exists
       THEN /\ txns' = [txns EXCEPT ![Txn(p)].props = GetTxnProplist(Dir(p))]
            /\ UNCHANGED txnh
       ELSE /\ txnh' = [txnh EXCEPT ![p] = <<>>]
            /\ UNCHANGED txns
  /\ UNCHANGED <<current, revs, revprops, lock, result, xdev, ntxns, faults, hist>>

\* ------------------------------------------------------- the state machine
Next ==
  \E p \in Procs :
    \/ \E B \in Revs : CreateTxn(p, B)
    \/ ChangeTxnProp(p)
    \/ CreateNode(p)
    \/ \E k \in 0 .. (MaxNodes - 1) : SetEntry(p, k)
    \/ \E k \in 0 .. (MaxNodes - 1) : AddChange(p, k)
    \/ Abort(p)
    \/ \E r \in Revs : SetRevisionProplist(p, r)
    \/ StartCommit(p)
    \/ GetWriteLock(p)
    \/ YoungestRev(p)
    \/ CheckBase(p)
    \/ GetNextRevisionIds(p)
    \/ OpenProtoRev(p)
    \/ WriteFinalRevStep(p)
    \/ WriteChangesStep(p)
    \/ WriteTrailer(p)
    \/ PromoteRev(p)
    \/ PromoteRevprops(p)
    \/ WriteFinalCurrent(p)
    \/ PurgeTxn(p)
    \/ ReleaseLock(p)
    \/ IOError(p)
    \/ PoolCleanup(p)
    \/ Crash(p)
    \/ Restart(p)

Spec == Init /\ [][Next]_vars

\* ------------------------------------------------------------- properties
\* the steps between the return of get_write_lock and the release of the lock
LockedPcs == CommitPcs \ {"c_lock"}

InSection(p) == pc[p] \in LockedPcs

\* the steps of svn_fs_fs__commit before its first move_into_place
PrePromotePcs == {"c_lock", "c_youngest", "c_check", "c_ids", "c_open",
                  "c_final_rev", "c_changes", "c_trailer"}

\* the identifiers stored in an item of a revision file
ItemIds(it) ==
  CASE it.t = "noderev" ->
         {it.nr.id} \cup {it.nr.pred[i] : i \in 1 .. Len(it.nr.pred)}
    [] it.t = "rep" /\ it.what = "dir" ->
         {it.entries[n].id : n \in DOMAIN it.entries}
    [] it.t = "change" -> {it.id[i] : i \in 1 .. Len(it.id)}
    [] OTHER -> {}

FileIds(f) == UNION {ItemIds(f.data[i]) : i \in 1 .. Len(f.data)}

\* C1: of the commits started on transactions based on the revision B that
\* is youngest when they start, with no failure of the file layer, the one
\* that finds `current' still at B under the lock succeeds and creates
\* B + 1, and every other one returns out-of-date.
C1_ExactlyOneSucceeds ==
  \A p \in Procs :
    (pc[p] = "returned" /\ faults = 0 /\ loc[p].young = Base(p))
      => IF Base(p) = loc[p].old_rev
           THEN result[p] = "ok" /\ hist.pub[Base(p) + 1] = <<Txn(p)>>
           ELSE result[p] = "out-of-date"

\* C2: a commit whose transaction is not based on the revision read from
\* `current' under the lock returns out-of-date, and no step of it up to
\* that return changes `current', revs/, revprops/ or a transaction directory.
C2_OutOfDateTouchesNothing ==
  [][\A p \in Procs :
       /\ (pc[p] \in {"c_lock", "c_youngest", "c_check"} /\ pc'[p] # pc[p])
            => /\ current' = current /\ revs' = revs /\ revprops' = revprops
               /\ txns' = txns
       /\ (/\ pc[p] = "c_check" /\ pc'[p] \notin {"c_check", "crashed"}
           /\ Base(p) # loc[p].old_rev)
            => pc'[p] = "returned" /\ result'[p] = "out-of-date"]_vars

C2_Witness ==
  \E p \in Procs : /\ pc[p] = "returned" /\ result[p] = "out-of-date"
                   /\ Base(p) # loc[p].old_rev

\* C3: in every state, for every r from 0 to the revision named by `current',
\* revs/r is there with its final line and its root, and revprops/r is there.
C3_CurrentNamesComplete ==
  \A r \in 0 .. current.rev :
    /\ revs[r].exists /\ Trailer(revs[r]) # <<>> /\ RevGetRoot(revs[r]) # <<>>
    /\ revprops[r].exists

\* a revision is published while another commit has promoted its rev file
C3_Witness ==
  /\ current.rev >= 1
  /\ \E p \in Procs : pc[p] = "c_move_props" /\ revs[loc[p].new_rev].exists

\* C4: when a commit stops, by a crash or an error, after revs/<new> was put
\* in place and before `current' was replaced, `current' still names the old
\* revision, its steps have left revs/0..old and revprops/0..old as they
\* were, and what is read at a revision up to youngest is never the file
\* of a commit that did not publish it.
C4_OrphanInvisible ==
  /\ [][\A p \in Procs :
          LET mid == pc[p] \in {"c_move_rev", "c_move_props", "c_current"} IN
          /\ (mid /\ pc'[p] # pc[p])
               => \A r \in 0 .. loc[p].old_rev :
                    revs'[r] = revs[r] /\ revprops'[r] = revprops[r]
          /\ (/\ mid /\ pc'[p] \in {"crashed", "returned"}
              /\ loc'[p].promoted /\ result'[p] # "ok"
              /\ current' = current)
               => Youngest' = loc[p].old_rev]_vars
  /\ [](\A r \in 1 .. current.rev : hist.by[r] = hist.pub[r])
  /\ [](\A p \in Procs : txnh[p] # <<>> => Base(p) <= Youngest)

C4_Witness ==
  \E p \in Procs :
    /\ pc[p] = "crashed" /\ loc[p].promoted
    /\ revs[loc[p].new_rev].exists
    /\ current.rev = loc[p].old_rev

\* C5: a commit run again on a transaction whose earlier commit stopped
\* between the promotion of the proto-rev file and the replacement of
\* `current', with no failure of the file layer during the new run, either
\* succeeds or returns out-of-date.
C5_RerunSucceedsOrOutOfDate ==
  \A p \in Procs :
    (pc[p] = "returned" /\ loc[p].again /\ faults = loc[p].faults0)
      => result[p] \in {"ok", "out-of-date"}

\* C6: whenever svn_fs_fs__commit has returned, with success, out-of-date or
\* an error, the process no longer holds the write lock.
C6_ReturnsUnlocked ==
  \A p \in Procs : pc[p] = "returned" => lock # p

\* C7: at most one process is between taking and releasing the write lock,
\* that process is the holder, and `current' is replaced only by it, in
\* write_final_current, while `current' still holds what it read at the start.
C7_OneWriter ==
  /\ [](/\ Cardinality({p \in Procs : InSection(p)}) <= 1
        /\ \A p \in Procs : InSection(p) => lock = p)
  /\ [][current' # current
          => \E p \in Procs :
               /\ InSection(p) /\ lock = p /\ pc[p] = "c_current"
               /\ current.rev = loc[p].old_rev
               /\ current.node = loc[p].start_node
               /\ current.copy = loc[p].start_copy]_vars

\* one process has replaced `current' while the other waits for the lock
C7_Witness ==
  \E p, q \in Procs :
    /\ pc[p] = "c_purge" /\ current.rev = loc[p].new_rev
    /\ pc[q] = "c_lock"

\* C8: no step of svn_fs_fs__commit before its first move_into_place, the
\* error returns among them, changes `current', revs/ or revprops/.
C8_EarlyErrorChangesNothing ==
  [][\A p \in Procs :
       (pc[p] \in PrePromotePcs /\ pc'[p] # pc[p])
         => current' = current /\ revs' = revs /\ revprops' = revprops]_vars

\* an error returned after the ids were read and before write_final_rev ended
C8_Witness ==
  \E p \in Procs :
    /\ pc[p] = "returned" /\ result[p] = "error"
    /\ loc[p].start_node # -1 /\ loc[p].new_root = <<>>

\* C9: revs/R never changes once R is at most the revision named by `current'.
C9_CommittedRevImmutable ==
  [][\A r \in 0 .. current.rev : revs'[r] = revs[r]]_vars

\* a commit has failed after its promotion while a committed revision exists
C9_Witness ==
  /\ current.rev >= 1
  /\ \E p \in Procs : /\ pc[p] = "returned" /\ result[p] = "error"
                      /\ loc[p].promoted

\* C10: no identifier in a revision file named by `current' (the id and pred
\* of a node-revision, an id in a directory entry, the id of a changed-path
\* entry) is scoped to a transaction.
C10_NoTxnIdInRevision ==
  \A r \in 0 .. current.rev : \A id \in FileIds(revs[r]) : ~IsTxnId(id)

\* ============================================================ representations
\* One representation: written by a transaction and its commit, then read
\* back through the stream of read_representation.

\* longest contents a caller writes
MaxData == 2

\* bytes of target view in one svndiff window
WindowSize == 2

\* largest size a caller asks of one read
MaxRead == 3

\* the bytes of contents
Bytes == {1, 2}

\* SVN_HASH_TERMINATOR, the last line of a dumped hash
END == 0

DataOf(n) == UNION {[1 .. k -> Bytes] : k \in 0 .. n}

Min(a, b) == IF a < b THEN a ELSE b

\* apr_md5_init, apr_md5_update, apr_md5_final: a digest that tells apart any
\* two byte strings of the lengths used here
Md5Init == 0

RECURSIVE Md5Update(_, _)
Md5Update(ctx, data) ==
  IF data = <<>> THEN ctx
  ELSE Md5Update(ctx * 4 + Head(data) + 1, Tail(data))

Md5Final(ctx) == ctx

\* svn_txdelta_target_push onto svn_txdelta_to_svndiff with the empty stream
\* as source: the target cut into windows of new data
RECURSIVE Windows(_)
Windows(data) ==
  IF Len(data) <= WindowSize
    THEN IF data = <<>> THEN <<>> ELSE <<data>>
  ELSE <<SubSeq(data, 1, WindowSize)>>
         \o Windows(SubSeq(data, WindowSize + 1, Len(data)))

\* bytes of svndiff on disk: "SVN\0", then each window's header and new data
RECURSIVE SvndiffLen(_)
SvndiffLen(ws) ==
  IF ws = <<>> THEN 4 ELSE 1 + Len(Head(ws)) + SvndiffLen(Tail(ws))

\* a mutable property or directory representation as get_node_revision
\* returns it: "-1" only, the other fields as apr_pcalloc left them
MutableRepTruncated ==
  [txn |-> TRUE, revision |-> -1, offset |-> 0, size |-> 0,
   expanded_size |-> 0, checksum |-> 0]

\* the representation `rep' with the size and digest that write_hash_rep
\* stores through its two out parameters
WriteHashRep(rep, dump) ==
  [rep EXCEPT !.size = Len(dump), !.checksum = Md5Final(Md5Update(Md5Init, dump))]

\* rep_write_get_baton, rep_write_contents, rep_write_contents_close for a
\* node-revision without predecessors ("DELTA\n"), then the file branch of
\* write_final_rev
SetContentsFinal(data, rev) ==
  [txn |-> FALSE, revision |-> rev, offset |-> 0,
   size |-> SvndiffLen(Windows(data)), expanded_size |-> Len(data),
   checksum |-> Md5Final(Md5Update(Md5Init, data))]

\* the directory branch of write_final_rev
WriteFinalDirRep(dump, rev) ==
  LET r == WriteHashRep([MutableRepTruncated EXCEPT !.txn = FALSE,
                                                    !.revision = rev], dump)
  IN [r EXCEPT !.expanded_size = r.size]

\* "Fix up the property reps" of write_final_rev
WriteFinalPropRep(dump, rev) ==
  LET r == WriteHashRep(MutableRepTruncated, dump)
  IN [r EXCEPT !.txn = FALSE, !.revision = rev]

\* the representation in the revision file: after "PLAIN\n" the bytes, after
\* "DELTA\n" the windows
PlainRep(data) == [is_delta |-> FALSE, data |-> data, windows |-> <<>>]

DeltaRep(data) == [is_delta |-> TRUE, data |-> <<>>, windows |-> Windows(data)]

\* the bytes a representation in the file holds, window after window
RECURSIVE Flat(_)
Flat(ws) == IF ws = <<>> THEN <<>> ELSE Head(ws) \o Flat(Tail(ws))

StoredBytes(f) == IF f.is_delta THEN Flat(f.windows) ELSE f.data

\* one byte of the stored representation damaged, its length unchanged
RECURSIVE DamageWindows(_, _, _)
DamageWindows(ws, i, b) ==
  IF ws = <<>> THEN <<>>
  ELSE IF i <= Len(Head(ws))
    THEN <<[Head(ws) EXCEPT ![i] = b]>> \o Tail(ws)
  ELSE <<Head(ws)>> \o DamageWindows(Tail(ws), i - Len(Head(ws)), b)

Damage(f, i, b) ==
  IF f.is_delta THEN [f EXCEPT !.windows = DamageWindows(f.windows, i, b)]
  ELSE [f EXCEPT !.data[i] = b]

\* rep_read_get_baton with build_rep_list: the first data byte is offset 0
RepReadGetBaton(rep, f) ==
  [buf |-> <<>>, buf_pos |-> 0, chunk_index |-> 0,
   md5_context |-> Md5Init, checksum_finalized |-> FALSE,
   checksum |-> rep.checksum, len |-> rep.expanded_size, off |-> 0,
   rs_off |-> IF f.is_delta THEN 4 ELSE 0, rs_end |-> rep.size]

\* get_contents: the next `remaining' bytes after those in `got'
RECURSIVE GetContents(_, _, _, _)
GetContents(f, rb, remaining, got) ==
  IF ~f.is_delta
    THEN LET copy_len == Min(remaining, rb.rs_end - rb.rs_off)
         IN [err |-> "none",
             rb |-> [rb EXCEPT !.rs_off = @ + copy_len],
             data |-> SubSeq(f.data, rb.rs_off + 1, rb.rs_off + copy_len)]
  ELSE IF remaining = 0
    THEN [err |-> "none", rb |-> rb, data |-> got]
  ELSE IF rb.buf # <<>>
    THEN LET b == rb.buf[1]
             copy_len == Min(Len(b) - rb.buf_pos, remaining)
             pos == rb.buf_pos + copy_len
         IN GetContents(f,
                        IF pos = Len(b) THEN [rb EXCEPT !.buf = <<>>, !.buf_pos = pos]
                        ELSE [rb EXCEPT !.buf_pos = pos],
                        remaining - copy_len,
                        got \o SubSeq(b, rb.buf_pos + 1, pos))
  ELSE IF rb.rs_off = rb.rs_end
    THEN [err |-> "none", rb |-> rb, data |-> got]
  ELSE \* get_combined_window: one window of new data, no source
       LET w == f.windows[rb.chunk_index + 1]
           off == rb.rs_off + 1 + Len(w)
       IN IF rb.chunk_index >= Len(f.windows) \/ off > rb.rs_end
            THEN [err |-> "corrupt", rb |-> rb, data |-> got]
          ELSE GetContents(f,
                           [rb EXCEPT !.chunk_index = @ + 1, !.rs_off = off,
                                      !.buf = <<w>>, !.buf_pos = 0],
                           remaining, got)

\* rep_read_contents: one read of `len' bytes
RepReadContents(f, rb, len) ==
  LET r == GetContents(f, rb, len, <<>>)
      ctx == Md5Update(r.rb.md5_context, r.data)
      off == r.rb.off + Len(r.data)
  IN IF r.err # "none" \/ r.rb.checksum_finalized THEN r
     ELSE IF off = r.rb.len
       THEN [err |-> IF Md5Final(ctx) = r.rb.checksum THEN "none" ELSE "corrupt",
             rb |-> [r.rb EXCEPT !.md5_context = ctx, !.off = off,
                                 !.checksum_finalized = TRUE],
             data |-> r.data]
     ELSE [r EXCEPT !.rb = [r.rb EXCEPT !.md5_context = ctx, !.off = off]]

\* -- the specification of one representation
RepIdle ==
  [pc |-> "idle", kind |-> "none", written |-> <<>>, file |-> PlainRep(<<>>),
   rep |-> MutableRepTruncated,
   rb |-> RepReadGetBaton(MutableRepTruncated, PlainRep(<<>>)),
   out |-> <<>>, eof |-> FALSE, err |-> "none", damaged |-> FALSE]

RepInit == Create /\ xdev = FALSE /\ u = RepIdle

\* a transaction gives a new file the contents `data' and is committed
CommitFileRep(data) ==
  /\ u.pc = "idle"
  /\ u' = [u EXCEPT !.pc = "committed", !.kind = "file", !.written = data,
                    !.file = DeltaRep(data), !.rep = SetContentsFinal(data, 1)]
  /\ UNCHANGED fsvars

\* a transaction changes a directory whose entries unparse to `data' and the
\* terminator, and is committed
CommitDirRep(data) ==
  /\ u.pc = "idle"
  /\ LET dump == data \o <<END>>
     IN u' = [u EXCEPT !.pc = "committed", !.kind = "dir", !.written = dump,
                       !.file = PlainRep(dump),
                       !.rep = WriteFinalDirRep(dump, 1)]
  /\ UNCHANGED fsvars

\* a transaction sets a property list that dumps to `data' and the
\* terminator, and is committed
CommitPropRep(data) ==
  /\ u.pc = "idle"
  /\ LET dump == data \o <<END>>
     IN u' = [u EXCEPT !.pc = "committed", !.kind = "props", !.written = dump,
                       !.file = PlainRep(dump),
                       !.rep = WriteFinalPropRep(dump, 1)]
  /\ UNCHANGED fsvars

\* the disk damages one byte of the representation
DamageRep(i, b) ==
  /\ u.pc = "committed" /\ ~u.damaged
  /\ i <= Len(StoredBytes(u.file)) /\ StoredBytes(u.file)[i] # b
  /\ u' = [u EXCEPT !.file = Damage(u.file, i, b), !.damaged = TRUE]
  /\ UNCHANGED fsvars

\* read_representation on the descriptor of the node-revision
ReadRepresentation ==
  /\ u.pc = "committed"
  /\ u' = [u EXCEPT !.pc = "open", !.rb = RepReadGetBaton(u.rep, u.file)]
  /\ UNCHANGED fsvars

\* svn_stream_read of `len' bytes
StreamRead(len) ==
  /\ u.pc = "open" /\ ~u.eof
  /\ LET r == RepReadContents(u.file, u.rb, len)
     IN u' = IF r.err # "none"
               THEN [u EXCEPT !.pc = "failed", !.err = r.err, !.rb = r.rb]
             ELSE [u EXCEPT !.rb = r.rb, !.out = @ \o r.data,
                            !.eof = Len(r.data) < len]
  /\ UNCHANGED fsvars

\* svn_stream_close
StreamClose ==
  /\ u.pc \in {"open", "failed"}
  /\ u' = RepIdle
  /\ UNCHANGED fsvars

RepNext ==
  \/ \E data \in DataOf(MaxData) : CommitFileRep(data)
  \/ \E data \in DataOf(MaxData) : CommitDirRep(data)
  \/ \E data \in DataOf(MaxData) : CommitPropRep(data)
  \/ \E i \in 1 .. (MaxData + 1) : \E b \in Bytes \cup {END} : DamageRep(i, b)
  \/ ReadRepresentation
  \/ \E len \in 1 .. MaxRead : StreamRead(len)
  \/ StreamClose

RepSpec == RepInit /\ [][RepNext]_vars

\* C11: after a successful commit, reading a representation the commit wrote
\* (file data, directory entries, property list) through read_representation
\* yields exactly the bytes written, as many as the descriptor's
\* expanded_size, with the descriptor's MD5.
C11_ReadsBackWhatWasWritten ==
  (u.pc \in {"open", "failed"} /\ ~u.damaged /\ (u.eof \/ u.pc = "failed"))
    => /\ u.pc = "open"
       /\ u.out = u.written
       /\ Len(u.out) = u.rep.expanded_size
       /\ Md5Final(Md5Update(Md5Init, u.out)) = u.rep.checksum

\* C12: a stream of read_representation that has delivered all the bytes of
\* the representation with only successful reads has delivered bytes whose
\* MD5 is the descriptor's; otherwise a read up to the one delivering the
\* final byte returned the checksum error.
C12_CompleteOnlyIfDigestMatches ==
  (u.pc = "open" /\ Len(u.out) = Len(StoredBytes(u.file)))
    => Md5Final(Md5Update(Md5Init, u.out)) = u.rep.checksum

\* ================================================================ delta bases
\* The line of node-revisions of one file, one committed transaction after
\* the other, and the representations their data is stored in.

\* largest predecessor_count of the line
MaxCount == 5

\* count & (count - 1)
RECURSIVE ClearLowestBit(_)
ClearLowestBit(n) ==
  IF n = 0 THEN 0
  ELSE IF n % 2 = 1 THEN n - 1
  ELSE 2 * ClearLowestBit(n \div 2)

RECURSIVE Popcount(_)
Popcount(n) == IF n = 0 THEN 0 ELSE (n % 2) + Popcount(n \div 2)

\* the node-revision `steps' predecessor links before node-revision i of
\* `nodes'
RECURSIVE WalkBack(_, _, _)
WalkBack(nodes, i, steps) ==
  IF steps = 0 THEN i ELSE WalkBack(nodes, nodes[i].predecessor_id[1], steps - 1)

ChooseDeltaBasePrevious(nodes, noderev) ==
  IF noderev.predecessor_count = 0 THEN <<>>
  ELSE nodes[noderev.predecessor_id[1]].data_rep

\* choose_delta_base: <<>> for the empty stream, or the representation
ChooseDeltaBase(nodes, noderev) ==
  IF noderev.predecessor_count = 0 THEN <<>>
  ELSE LET count == ClearLowestBit(noderev.predecessor_count)
           base == WalkBack(nodes, noderev.predecessor_id[1],
                            noderev.predecessor_count - count - 1)
       IN nodes[base].data_rep

\* the number of representations build_rep_list opens from representation r:
\* it follows the base of each "DELTA <rev> <offset> <length>" header and
\* stops after a "DELTA" without base
RECURSIVE BuildRepList(_, _)
BuildRepList(reps, r) ==
  IF r = <<>> THEN 0
  ELSE 1 + (IF reps[r[1]].base = <<>> THEN 0 ELSE BuildRepList(reps, reps[r[1]].base))

\* the successor a transaction makes of the youngest node-revision: its
\* predecessor is that node-revision, its count one more, its other fields
\* the same
Successor(nodes) ==
  [nodes[Len(nodes)] EXCEPT !.predecessor_id = <<Len(nodes)>>,
                            !.predecessor_count = @ + 1, !.own = FALSE]

\* rep_write_get_baton and rep_write_contents_close on `noderev': a new
\* representation, a delta against the chosen base
SetContents(nodes, reps, noderev) ==
  [reps |-> Append(reps, [base |-> ChooseDeltaBase(nodes, noderev)]),
   noderev |-> [noderev EXCEPT !.data_rep = <<Len(reps) + 1>>, !.own = TRUE]]

DeltaInit ==
  Create /\ xdev = FALSE /\ u = [nodes |-> <<>>, reps |-> <<>>]

\* a committed transaction adds the file, with or without contents
AddFile(text) ==
  /\ u.nodes = <<>>
  /\ LET noderev == [predecessor_id |-> <<>>, predecessor_count |-> 0,
                     data_rep |-> <<>>, own |-> FALSE]
         w == SetContents(u.nodes, u.reps, noderev)
     IN u' = IF text THEN [nodes |-> <<w.noderev>>, reps |-> w.reps]
             ELSE [nodes |-> <<noderev>>, reps |-> u.reps]
  /\ UNCHANGED fsvars

\* a committed transaction changes the contents of the file
ChangeText ==
  /\ u.nodes # <<>> /\ Len(u.nodes) <= MaxCount
  /\ LET w == SetContents(u.nodes, u.reps, Successor(u.nodes))
     IN u' = [nodes |-> Append(u.nodes, w.noderev), reps |-> w.reps]
  /\ UNCHANGED fsvars

\* a committed transaction changes the properties of the file only
ChangeProps ==
  /\ u.nodes # <<>> /\ Len(u.nodes) <= MaxCount
  /\ u' = [u EXCEPT !.nodes = Append(@, Successor(u.nodes))]
  /\ UNCHANGED fsvars

DeltaNext ==
  \/ \E text \in BOOLEAN : AddFile(text)
  \/ ChangeText
  \/ ChangeProps

DeltaSpec == DeltaInit /\ [][DeltaNext]_vars

\* the data of node-revision i, and of each base chosen from it in turn, was
\* written by the transaction that made that node-revision
RECURSIVE OwnText(_, _)
OwnText(nodes, i) ==
  /\ nodes[i].own
  /\ \/ nodes[i].predecessor_count = 0
     \/ OwnText(nodes, ClearLowestBit(nodes[i].predecessor_count) + 1)

TrailerBlock == 64

Digits == <<"0", "1", "2", "3", "4", "5", "6", "7", "8", "9">>

IsDigit(c) == \E d \in 1 .. 10 : Digits[d] = c

DigitValue(c) == (CHOOSE d \in 1 .. 10 : Digits[d] = c) - 1

\* "%" APR_OFF_T_FMT of a non-negative offset
RECURSIVE OffT(_)
OffT(n) ==
  IF n < 10 THEN <<Digits[n + 1]>> ELSE Append(OffT(n \div 10), Digits[(n % 10) + 1])

\* apr_atoi64: white space is skipped, then the digits are read
RECURSIVE AtoiDigits(_, _)
AtoiDigits(s, acc) ==
  IF s = <<>> \/ ~IsDigit(Head(s)) THEN acc
  ELSE AtoiDigits(Tail(s), acc * 10 + DigitValue(Head(s)))

RECURSIVE Atoi64(_)
Atoi64(s) ==
  IF s # <<>> /\ Head(s) \in {" ", "\n"} THEN Atoi64(Tail(s))
  ELSE AtoiDigits(s, 0)

FinalLineBare(root_offset, changed_path_offset) ==
  OffT(root_offset) \o <<" ">> \o OffT(changed_path_offset) \o <<"\n">>

\* "\n%" APR_OFF_T_FMT " %" APR_OFF_T_FMT "\n"
FinalLine(root_offset, changed_path_offset) ==
  <<"\n">> \o OffT(root_offset) \o <<" ">> \o OffT(changed_path_offset) \o <<"\n">>

\* the greatest i in lo .. hi with buf[i] = c (buf counted from 0), or -1
LastIndexOf(buf, c, lo, hi) ==
  LET found == {k \in lo .. hi : buf[k + 1] = c}
  IN IF found = {} THEN -1 ELSE CHOOSE k \in found : \A j \in found : j <= k

\* for ( ; i < (num_bytes - 3) ; i++) if (buf[i] == ' ') break;
NextSpace(buf, i, num_bytes) ==
  LET found == {k \in i .. (num_bytes - 4) : buf[k + 1] = " "}
  IN IF found # {} THEN CHOOSE k \in found : \A j \in found : k <= j
     ELSE IF i < num_bytes - 3 THEN num_bytes - 3
     ELSE i

\* get_root_changes_offset on an open revision file
GetRootChangesOffset(file) ==
  LET num_bytes == Min(TrailerBlock, Len(file))
      buf == SubSeq(file, Len(file) - num_bytes + 1, Len(file))
      nl == LastIndexOf(buf, "\n", 0, num_bytes - 2)
      i == NextSpace(buf, nl, num_bytes)
      Corrupt == [err |-> "corrupt", root_offset |-> -1, changes_offset |-> -1]
  IN IF Len(file) < TrailerBlock
       THEN [err |-> "seek", root_offset |-> -1, changes_offset |-> -1]
     ELSE IF buf[num_bytes] # "\n" THEN Corrupt
     ELSE IF nl < 0 THEN Corrupt
     ELSE IF i = num_bytes - 2 THEN Corrupt
     ELSE [err |-> "none",
           root_offset |-> Atoi64(SubSeq(buf, nl + 1, num_bytes)),
           changes_offset |-> Atoi64(SubSeq(buf, i + 2, num_bytes))]

\* -- the specification of one revision file
\* the lengths of what the commit has written before the changed paths
RootOffsets == {0, 9, 10, 78}

\* the lengths of the root node-revision and of the changed-path log
RootLengths == {70, 95}

ChangesLengths == {0, 1, 24}

\* what the commit wrote before the final line: lines of six characters
Filler(n) == [k \in 1 .. n |-> IF k % 7 = 0 THEN "\n" ELSE "x"]

TrailerInit ==
  /\ Create /\ xdev = FALSE
  /\ \E root \in RootOffsets : \E len \in RootLengths : \E log \in ChangesLengths :
       u = [pc |-> "proto", file |-> Filler(root + len + log),
            root_offset |-> root, changed_path_offset |-> root + len,
            final |-> -1, damaged |-> "no",
            got |-> [err |-> "none", root_offset |-> -1, changes_offset |-> -1]]

\* "Write the final line" of svn_fs_fs__commit, and the rest of the commit
CommitFinalLine ==
  /\ u.pc = "proto"
  /\ u' = [u EXCEPT !.pc = "committed", !.final = Len(u.file) + 1,
                    !.file = @ \o FinalLine(u.root_offset, u.changed_path_offset)]
  /\ UNCHANGED fsvars

\* the revision file damaged afterwards: its last byte lost, the space of its
\* final line overwritten, or its final line emptied
DamagedFile(file, final, how) ==
  CASE how = "chopped" -> SubSeq(file, 1, Len(file) - 1)
    [] how = "nospace" ->
         [k \in 1 .. Len(file) |-> IF k > final /\ file[k] = " " THEN "0" ELSE file[k]]
    [] how = "emptied" -> SubSeq(file, 1, final) \o <<"\n">>

DamageFinalLine(how) ==
  /\ u.pc = "committed" /\ u.damaged = "no"
  /\ u' = [u EXCEPT !.damaged = how, !.file = DamagedFile(u.file, u.final, how)]
  /\ UNCHANGED fsvars

\* svn_fs_fs__rev_get_root or svn_fs_fs__paths_changed reads the trailer
ReadTrailer ==
  /\ u.pc = "committed"
  /\ u' = [u EXCEPT !.pc = "read", !.got = GetRootChangesOffset(u.file)]
  /\ UNCHANGED fsvars

TrailerNext ==
  \/ CommitFinalLine
  \/ \E how \in {"chopped", "nospace", "emptied"} : DamageFinalLine(how)
  \/ ReadTrailer

TrailerSpec == TrailerInit /\ [][TrailerNext]_vars

\* the final line of the file: what follows the last newline before the end
FinalLineOf(file) ==
  LET nl == LastIndexOf(file, "\n", 0, Len(file) - 2)
  IN SubSeq(file, nl + 2, Len(file))

\* C14: after a successful commit get_root_changes_offset returns the offset
\* of the new root node-revision and the offset of the changed-path log; both
\* are smaller than the offset of the trailer line, which lies within the
\* last 64 bytes of the file.
C14_TrailerLocatesRootAndChanges ==
  (u.pc = "read" /\ u.damaged = "no")
    => /\ u.got.err = "none"
       /\ u.got.root_offset = u.root_offset
       /\ u.got.changes_offset = u.changed_path_offset
       /\ u.got.root_offset < u.final
       /\ u.got.changes_offset < u.final
       /\ Len(u.file) - u.final <= TrailerBlock
       /\ FinalLineOf(u.file) = SubSeq(u.file, u.final + 1, Len(u.file))

C14_Witness ==
  /\ u.pc = "read" /\ u.damaged = "no"
  /\ u.got.root_offset = 78 /\ u.got.changes_offset = 173
  /\ Len(u.file) > 2 * TrailerBlock

\* C15: get_root_changes_offset returns the corrupt error whenever the last
\* byte of the file is not a newline and whenever its final line has no space.
C15_CorruptWithoutNewlineOrSpace ==
  (u.pc = "read"
     /\ \/ u.file[Len(u.file)] # "\n"
        \/ \A k \in 1 .. Len(FinalLineOf(u.file)) : FinalLineOf(u.file)[k] # " ")
    => u.got.err = "corrupt"

\* ===================================================== transaction directories
\* Calls of svn_fs_fs__create_txn, the mkdir of each taken one at a time, and
\* removals of transaction directories.

\* the calls in progress or returned at one time, of any processes
Callers == {"a", "b", "c"}

\* calls of create_txn in one behaviour
MaxCreates == 4

\* the last uniquifier create_txn_dir tries
LastUniquifier == 99999

BaseRevs == {0, 1}

\* svn_io_dir_make that takes an existing directory for a success
SvnIoDirMakeExisting(dirs, path) == [err |-> "none", dirs |-> dirs \cup {path}]

\* svn_io_dir_make: mkdir(2)
SvnIoDirMake(dirs, path) ==
  IF path \in dirs THEN [err |-> "EEXIST", dirs |-> dirs]
  ELSE [err |-> "none", dirs |-> dirs \cup {path}]

NoCall == [pc |-> "idle", rev |-> -1, i |-> 0, id |-> <<>>, failed |-> {},
           removed |-> FALSE]

TxnDirInit ==
  /\ Create /\ xdev = FALSE
  /\ u = [dirs |-> {}, calls |-> 0, call |-> [c \in Callers |-> NoCall]]

\* svn_fs_fs__create_txn is called for base revision rev: create_txn_dir
\* starts with i = 1
CreateTxnDirStart(c, rev) ==
  /\ u.call[c].pc = "idle" /\ u.calls < MaxCreates
  /\ u' = [u EXCEPT !.calls = @ + 1,
                    !.call[c] = [NoCall EXCEPT !.pc = "mkdir", !.rev = rev, !.i = 1]]
  /\ UNCHANGED fsvars

\* one turn of the loop of create_txn_dir
CreateTxnDirTry(c) ==
  /\ u.call[c].pc = "mkdir"
  /\ LET me == u.call[c]
         r == SvnIoDirMake(u.dirs, <<me.rev, me.i>>)
     IN u' = IF me.i > LastUniquifier
               THEN [u EXCEPT !.call[c] = NoCall]
             ELSE IF r.err = "none"
               THEN [u EXCEPT !.dirs = r.dirs,
                              !.call[c].pc = "made", !.call[c].id = <<me.rev, me.i>>]
             ELSE [u EXCEPT !.call[c].i = @ + 1,
                            !.call[c].failed = @ \cup {me.i}]
  /\ UNCHANGED fsvars

\* mkdir fails otherwise than with EEXIST: create_txn_dir returns the error
CreateTxnDirFails(c) ==
  /\ u.call[c].pc = "mkdir"
  /\ u' = [u EXCEPT !.call[c] = NoCall]
  /\ UNCHANGED fsvars

\* the rest of svn_fs_fs__create_txn succeeds and the call returns
CreateTxnReturns(c) ==
  /\ u.call[c].pc = "made"
  /\ u' = [u EXCEPT !.call[c].pc = "returned"]
  /\ UNCHANGED fsvars

\* svn_fs_fs__purge_txn of any transaction, by its owner or anybody else
RemoveTxnDir(id) ==
  /\ id \in u.dirs
  /\ u' = [u EXCEPT !.dirs = @ \ {id},
                    !.call = [c \in Callers |->
                                IF u.call[c].id = id
                                  THEN [u.call[c] EXCEPT !.removed = TRUE]
                                ELSE u.call[c]]]
  /\ UNCHANGED fsvars

\* the caller drops the transaction it was given
ForgetTxn(c) ==
  /\ u.call[c].pc = "returned"
  /\ u' = [u EXCEPT !.call[c] = NoCall]
  /\ UNCHANGED fsvars

TxnDirNext ==
  \/ \E c \in Callers : \E rev \in BaseRevs : CreateTxnDirStart(c, rev)
  \/ \E c \in Callers : CreateTxnDirTry(c)
  \/ \E c \in Callers : CreateTxnDirFails(c)
  \/ \E c \in Callers : CreateTxnReturns(c)
  \/ \E id \in BaseRevs \X (1 .. MaxCreates) : RemoveTxnDir(id)
  \/ \E c \in Callers : ForgetTxn(c)

TxnDirSpec == TxnDirInit /\ [][TxnDirNext]_vars

\* C16: create_txn for base B returns B-i for the first i whose mkdir
\* succeeded, and two calls that both succeeded return different ids as long
\* as neither directory has been removed.
C16_TxnIdsUnique ==
  /\ \A c \in Callers :
       u.call[c].pc = "returned"
         => /\ u.call[c].id = <<u.call[c].rev, u.call[c].i>>
            /\ u.call[c].i \in 1 .. LastUniquifier
            /\ u.call[c].failed = 1 .. (u.call[c].i - 1)
  /\ \A c, d \in Callers :
       (c # d /\ u.call[c].pc = "returned" /\ u.call[d].pc = "returned"
          /\ ~u.call[c].removed /\ ~u.call[d].removed)
         => u.call[c].id # u.call[d].id

C16_Witness ==
  /\ u.call["a"].pc = "returned" /\ u.call["b"].pc = "returned"
  /\ u.call["a"].rev = u.call["b"].rev
  /\ u.call["a"].i = 1 /\ u.call["b"].i = 3
  /\ ~u.call["a"].removed /\ ~u.call["b"].removed
  /\ u.call["c"].removed

\* ========================================================== changed paths
\* The changes file of one transaction folded entry by entry, the folded
\* entries written into the revision file, and the revision's changed paths
\* read back.

\* entries of the changes file of a transaction
MaxLog == 3

FoldPaths == {<<"a">>, <<"a", "b">>}

\* the node-revision ids of the entries, all of the transaction; <<>> is NULL
FoldIds ==
  {<<>>} \cup {<<IdTxnCreate(<<"_", k>>, <<"", 0>>, <<0, 1>>)>> : k \in {0, 1}}

ChangeKinds == {"modify", "add", "delete", "replace", "reset"}

\* what svn_fs_fs__add_change can append: a copyfrom goes with an add or a
\* replace
FoldChanges ==
  {c \in [path : FoldPaths, id : FoldIds, kind : ChangeKinds,
          text_mod : BOOLEAN, prop_mod : BOOLEAN,
          cf : {<<>>, <<0, <<"x">>>>}] :
     /\ c.cf # <<>> => c.kind \in {"add", "replace"}
     /\ c.text_mod # c.prop_mod}

\* read_change on an entry of the revision file
ReadChange(it) ==
  [path |-> it.path, id |-> it.id, kind |-> it.kind, text_mod |-> it.text_mod,
   prop_mod |-> it.prop_mod, cf |-> it.cf]

PathsChangedUnfolded(entries) ==
  FetchAllChanges(NoChanges, [i \in 1 .. Len(entries) |-> ReadChange(entries[i])],
                  FALSE)

\* svn_fs_fs__paths_changed on the entries after the changes offset
PathsChanged(entries) ==
  FetchAllChanges(NoChanges, [i \in 1 .. Len(entries) |-> ReadChange(entries[i])],
                  TRUE)

\* the orders in which apr_hash_first and apr_hash_next can give the keys
Orders(S) ==
  {o \in [1 .. Cardinality(S) -> S] : \A i, j \in DOMAIN o : i # j => o[i] # o[j]}

FoldInit ==
  /\ Create /\ xdev = FALSE
  /\ u = [pc |-> "txn", n |-> 0, st |-> NoChanges, file |-> <<>>,
          got |-> NoChanges]

\* one turn of the loop of fetch_all_changes on the changes file
FoldNextChange(c) ==
  /\ u.pc = "txn" /\ u.n < MaxLog
  /\ LET st == FetchAllChanges(u.st, <<c>>, FALSE)
     IN u' = [u EXCEPT !.n = @ + 1, !.st = st,
                       !.pc = IF st.err THEN "failed" ELSE "txn"]
  /\ UNCHANGED fsvars

\* the loop of write_final_changed_path_info over the folded changes
WriteFoldedChanges(order) ==
  /\ u.pc = "txn"
  /\ LET out == WriteChangeEntries([err |-> "none", file |-> <<>>, offset |-> 0],
                                   order, u.st, <<>>, revs)
     IN u' = IF out.err = "none"
               THEN [u EXCEPT !.pc = "committed", !.file = out.file]
             ELSE [u EXCEPT !.pc = "failed"]
  /\ UNCHANGED fsvars

\* the changed paths of the new revision are asked for
ReadFoldedChanges ==
  /\ u.pc = "committed"
  /\ u' = [u EXCEPT !.pc = "read", !.got = PathsChanged(u.file)]
  /\ UNCHANGED fsvars

FoldNext ==
  \/ \E c \in FoldChanges : FoldNextChange(c)
  \/ \E order \in Orders(DOMAIN u.st.changes) : WriteFoldedChanges(order)
  \/ ReadFoldedChanges

FoldSpec == FoldInit /\ [][FoldNext]_vars

\* C17: folding the folded entries of a committed revision again, in whatever
\* order they were written, gives the per-path changes and copyfroms that the
\* commit folded.
C17_RefoldingChangesNothing ==
  u.pc = "read"
    => /\ ~u.got.err
       /\ u.got.changes = u.st.changes
       /\ \A path \in DOMAIN u.st.changes :
            /\ path \in DOMAIN u.got.copyfrom
            /\ path \in DOMAIN u.st.copyfrom
            /\ u.got.copyfrom[path] = u.st.copyfrom[path]

C17_Witness ==
  /\ u.pc = "read"
  /\ DOMAIN u.got.changes = FoldPaths
  /\ u.got.changes[<<"a">>].kind = "replace"
  /\ u.got.changes[<<"a", "b">>].kind = "add"
  /\ u.file[1].path = <<"a", "b">>

\* the combinations the folding rules mark invalid
InvalidFold(old_kind, new_kind) ==
  \/ new_kind = "add" /\ old_kind \in {"add", "modify", "replace"}
  \/ new_kind = "replace" /\ old_kind = "add"
  \/ new_kind \in {"modify", "delete"} /\ old_kind = "delete"

\* C18: fold_change returns an error and leaves the folded set as it was on
\* an add onto an add, a modify or a replace, on a replace onto an add, and
\* on a modify or a delete onto a delete.
C18_InvalidFoldsRejected ==
  [][\A c \in FoldChanges :
       (/\ FoldNextChange(c)
        /\ c.path \in DOMAIN u.st.changes
        /\ InvalidFold(u.st.changes[c.path].kind, c.kind))
         => /\ u'.st.err
            /\ u'.st.changes = u.st.changes
            /\ u'.st.copyfrom = u.st.copyfrom]_vars


\* ===================================================== the directory cache
\* One process (one svn_fs_t, so one dir_cache_id and one dir_cache) works on
\* the root directories of the revisions and of its transactions.  In
\* CacheSpec u is [youngest, roots, txn, cache, last]:
\*   roots[r + 1] the committed entries of the root of revision r,
\*   txn[t]       the directory of transaction t, or NoTxnDir,
\*   cache        <<>> (dir_cache_id is NULL) or <<[id, entries]>>,
\*   last         <<>> or <<[dir, got, disk]>>, the last answer of
\*                rep_contents_dir and what get_dir_contents reads for the
\*                same directory at that moment.
MaxCacheRev == 1
MaxOpen == 1
MaxEdits == 2
CacheNames == {"f", "g"}
CacheIds == {"x"}
CacheTxnIds == {<<b, i>> : b \in 0..MaxCacheRev, i \in 1..MaxOpen}
NoTxnDir == [exists |-> FALSE]

\* the id of the root of revision r, and of the root of transaction t
RevRootId(r) == <<"r", r>>
TxnRootId(t) == <<"t", t[1], t[2]>>

\* create_txn_dir: the first free <base>-<i>
FirstFree(txn, b) ==
  CHOOSE i \in 1..MaxOpen :
    /\ ~txn[<<b, i>>].exists
    /\ \A j \in 1..(i - 1) : txn[<<b, j>>].exists

\* get_dir_contents of the root of transaction t: the children file when the
\* data rep is mutable, the committed representation of the base otherwise
TxnRootOnDisk(s, t) ==
  IF s.txn[t].mutable
    THEN ApplyEdits(s.txn[t].children.base, s.txn[t].children.edits)
    ELSE s.roots[s.txn[t].base + 1]

\* rep_contents_dir: the cached hash when dir_cache_id equals the id, else
\* the directory is read and becomes the cached one
RepContentsDirOf(cache, id, disk) ==
  IF cache # <<>> /\ cache[1].id = id
    THEN [entries |-> cache[1].entries, cache |-> cache]
    ELSE [entries |-> disk, cache |-> <<[id |-> id, entries |-> disk]>>]

CacheInit ==
  /\ Create
  /\ xdev = FALSE
  /\ u = [youngest |-> 0, roots |-> << <<>> >>,
          txn |-> [t \in CacheTxnIds |-> NoTxnDir],
          cache |-> <<>>, last |-> <<>>]

\* create_txn on revision b: the root node-rev shares the data rep of the
\* root of b and gets the id 0.0.t<b>-<i>
CacheCreateTxn(b) ==
  /\ b <= u.youngest
  /\ \E i \in 1..MaxOpen : ~u.txn[<<b, i>>].exists
  /\ Cardinality({t \in CacheTxnIds : u.txn[t].exists}) < MaxOpen
  /\ u' = [u EXCEPT !.txn[<<b, FirstFree(u.txn, b)>>] =
             [exists |-> TRUE, base |-> b, node |-> TRUE, mutable |-> FALSE,
              children |-> [base |-> <<>>, edits |-> <<>>]],
           !.last = <<>>]
  /\ UNCHANGED fsvars

\* rep_contents_dir of the root of revision r
CacheReadRevRoot(r) ==
  /\ r <= u.youngest
  /\ LET disk == u.roots[r + 1]
         got == RepContentsDirOf(u.cache, RevRootId(r), disk)
     IN u' = [u EXCEPT !.cache = got.cache,
                       !.last = <<[dir |-> RevRootId(r), got |-> got.entries,
                                   disk |-> disk]>>]
  /\ UNCHANGED fsvars

\* rep_contents_dir of the root of transaction t
CacheReadTxnRoot(t) ==
  /\ u.txn[t].exists /\ u.txn[t].node
  /\ LET disk == TxnRootOnDisk(u, t)
         got == RepContentsDirOf(u.cache, TxnRootId(t), disk)
     IN u' = [u EXCEPT !.cache = got.cache,
                       !.last = <<[dir |-> TxnRootId(t), got |-> got.entries,
                                   disk |-> disk]>>]
  /\ UNCHANGED fsvars

\* set_entry on the root of transaction t: id = <<>> deletes the entry
CacheSetEntry(t, name, id) ==
  /\ u.txn[t].exists /\ u.txn[t].node
  /\ LET d == u.txn[t]
         old == RepContentsDirOf(u.cache, TxnRootId(t), TxnRootOnDisk(u, t))
         cache1 == IF d.mutable THEN u.cache ELSE old.cache
         ch == IF d.mutable THEN d.children
               ELSE [base |-> old.entries, edits |-> <<>>]
         edit == IF id = <<>>
                   THEN [del |-> TRUE, name |-> name, val |-> <<>>]
                   ELSE [del |-> FALSE, name |-> name, val |-> id[1]]
         have_cached == cache1 # <<>> /\ cache1[1].id = TxnRootId(t)
     IN u' = [u EXCEPT
                !.txn[t].mutable = TRUE,
                !.txn[t].children = [ch EXCEPT !.edits = Append(ch.edits, edit)],
                !.cache = IF have_cached
                            THEN <<[cache1[1] EXCEPT !.entries =
                                      ApplyEdits(cache1[1].entries, <<edit>>)]>>
                            ELSE cache1,
                !.last = <<>>]
  /\ Len(u'.txn[t].children.edits) <= MaxEdits
  /\ UNCHANGED fsvars

\* delete_node_revision of the root of transaction t
CacheDeleteNodeRevision(t) ==
  /\ u.txn[t].exists /\ u.txn[t].node
  /\ u' = [u EXCEPT !.txn[t].node = FALSE,
                    !.txn[t].children = [base |-> <<>>, edits |-> <<>>],
                    !.last = <<>>]
  /\ UNCHANGED fsvars

\* purge_txn: the transaction directory is removed
CachePurgeTxn(t) ==
  /\ u.txn[t].exists
  /\ u' = [u EXCEPT !.txn[t] = NoTxnDir, !.last = <<>>]
  /\ UNCHANGED fsvars

\* commit: write_final_rev writes the entries rep_contents_dir gives for a
\* mutable root, the new revision keeps the base's representation otherwise;
\* the transaction is purged
CacheCommit(t) ==
  /\ u.txn[t].exists /\ u.txn[t].node
  /\ u.youngest < MaxCacheRev
  /\ LET d == u.txn[t]
         got == RepContentsDirOf(u.cache, TxnRootId(t), TxnRootOnDisk(u, t))
     IN u' = [u EXCEPT
                !.youngest = u.youngest + 1,
                !.roots = Append(u.roots, IF d.mutable THEN got.entries
                                          ELSE u.roots[d.base + 1]),
                !.cache = IF d.mutable THEN got.cache ELSE u.cache,
                !.txn[t] = NoTxnDir,
                !.last = <<>>]
  /\ UNCHANGED fsvars

CacheNext ==
  \/ \E b \in 0..MaxCacheRev : CacheCreateTxn(b)
  \/ \E r \in 0..MaxCacheRev : CacheReadRevRoot(r)
  \/ \E t \in CacheTxnIds : CacheReadTxnRoot(t)
  \/ \E t \in CacheTxnIds, name \in CacheNames,
        id \in {<<>>} \cup {<<i>> : i \in CacheIds} : CacheSetEntry(t, name, id)
  \/ \E t \in CacheTxnIds : CacheDeleteNodeRevision(t)
  \/ \E t \in CacheTxnIds : CachePurgeTxn(t)
  \/ \E t \in CacheTxnIds : CacheCommit(t)

CacheSpec == CacheInit /\ [][CacheNext]_vars

\* C19: whatever calls came before it, rep_contents_dir answers with the
\* entries that get_dir_contents reads for that directory at that moment:
\* the cached directory is never stale.
C19_CacheNeverStale ==
  u.last # <<>> => u.last[1].got = u.last[1].disk


\* ========================================================= move_into_place
\* In MoveSpec u is [pc, src, dst, perms, cross, fail, ret]: the three files
\* move_into_place is called on, whether the two names are on two devices,
\* what the file layer does, and (pc = "done") what the call left behind.
MoveFiles == {NoFile, File(<<"a">>), File(<<"b">>)}
MoveFails == {"none", "before", "after"}

MoveInit ==
  /\ Create
  /\ xdev = FALSE
  /\ \E src \in MoveFiles, dst \in MoveFiles, perms \in {NoFile, File(<<>>)},
        cross \in BOOLEAN, fail \in MoveFails :
       u = [pc |-> "call", src |-> src, dst |-> dst, perms |-> perms,
            cross |-> cross, fail |-> fail, ret |-> <<>>]

MoveCall ==
  /\ u.pc = "call"
  /\ u' = [u EXCEPT !.pc = "done",
                    !.ret = <<MoveIntoPlace(u.src, u.dst, u.perms, u.cross,
                                            u.fail)>>]
  /\ UNCHANGED fsvars

MoveNext == MoveCall

MoveSpec == MoveInit /\ [][MoveNext]_vars

\* C20: when the rename fails because the two names are on different devices
\* and the copy, the open, the fsync and the close all succeed,
\* move_into_place returns success and the destination holds the contents of
\* the source.
C20_CrossDeviceMoveSucceeds ==
  (/\ u.pc = "done"
   /\ u.perms.exists /\ u.src.exists
   /\ u.cross /\ u.fail = "none")
    => /\ ~u.ret[1].err
       /\ u.ret[1].dst = u.src

\* ======================================================= diff_file.c: tokens
\* The files are read in chunks of ChunkSize bytes (CHUNK_SIZE, 1 << 17 in the
\* source; the model reads far smaller chunks so that every position of a
\* chunk boundary occurs; likewise SUFFIX_LINES_TO_KEEP, 50 in the source, so
\* that files of a few lines have an identical suffix).  A byte is "a", "b", LF or CR.  A file_info is
\*   [data, size, chunk, buf, curp, endp, suffix_start_chunk,
\*    suffix_offset_in_chunk, g, w]
\* with curp and endp as offsets from the start of buf.  buf always has
\* ChunkSize cells: a read_chunk of fewer bytes leaves the other cells as they
\* were.  A read outside the bytes last read is a read of memory the program
\* never wrote: the cell next to the buffer holds g, a byte chosen in Init,
\* every cell further away holds w, a value no file holds.  wild is set when
\* svn_eol__find_eol_start was handed a negative length: it scans memory that
\* is not the buffer, and the model reads no more of that file.
ChunkSize == 2
SUFFIX_LINES_TO_KEEP == 1
MaxHead == 2
LF == "n"
CR == "r"
DiffBytes == {"a", "b", LF, CR}
Wild == <<"w1", "w2", "w3">>

chunk_to_offset(chunk) == chunk * ChunkSize
offset_to_chunk(offset) == offset \div ChunkSize
offset_in_chunk(offset) == offset % ChunkSize

\* *p for a pointer at offset p of the buffer of f
Deref(f, p) ==
  IF p >= 0 /\ p < ChunkSize THEN f.buf[p + 1]
  ELSE IF p = -1 \/ p = ChunkSize THEN f.g
  ELSE f.w

\* read_chunk: LENGTH bytes from OFFSET of the file into the buffer
read_chunk(f, length, offset) ==
  [i \in 1..ChunkSize |->
     IF i <= length /\ offset + i >= 1 /\ offset + i <= f.size
       THEN f.data[offset + i]
       ELSE f.buf[i]]

\* increment_pointers, for one file
IncrementPointer(f) ==
  IF f.chunk = -1 THEN [f EXCEPT !.chunk = 0]
  ELSE IF f.curp = f.endp - 1
    THEN LET last_chunk == offset_to_chunk(f.size)
         IN IF f.chunk = last_chunk
              THEN [f EXCEPT !.curp = f.curp + 1]
              ELSE LET length == IF f.chunk + 1 = last_chunk
                                   THEN offset_in_chunk(f.size)
                                   ELSE ChunkSize
                   IN [f EXCEPT !.chunk = f.chunk + 1,
                                !.buf = read_chunk(f, length,
                                          chunk_to_offset(f.chunk + 1)),
                                !.endp = length,
                                !.curp = 0]
  ELSE [f EXCEPT !.curp = f.curp + 1]

\* decrement_pointers, for one file
DecrementPointer(f) ==
  IF f.curp = 0
    THEN IF f.chunk = 0 THEN [f EXCEPT !.chunk = -1]
         ELSE [f EXCEPT !.chunk = f.chunk - 1,
                        !.buf = read_chunk(f, ChunkSize,
                                  chunk_to_offset(f.chunk - 1)),
                        !.endp = ChunkSize,
                        !.curp = ChunkSize - 1]
  ELSE [f EXCEPT !.curp = f.curp - 1]

increment_pointers(file) == [i \in DOMAIN file |-> IncrementPointer(file[i])]
decrement_pointers(file) == [i \in DOMAIN file |-> DecrementPointer(file[i])]
is_one_at_bof(file) == \E i \in DOMAIN file : file[i].chunk = -1
is_one_at_eof(file) == \E i \in DOMAIN file : file[i].curp = file[i].endp

\* is_match: all files hold the byte of file[0] under their pointers
IsMatch(file) ==
  \A i \in DOMAIN file : Deref(file[1], file[1].curp) = Deref(file[i], file[i].curp)

RECURSIVE PrefixLoop(_, _, _)
\* the while (is_match) loop of find_identical_prefix
PrefixLoop(file, prefix_lines, had_cr) ==
  LET c == Deref(file[1], file[1].curp)
      lines == IF c = CR \/ (c = LF /\ ~had_cr) THEN prefix_lines + 1
               ELSE prefix_lines
      next == increment_pointers(file)
  IN IF is_one_at_eof(next)
       THEN [file |-> next, prefix_lines |-> lines, had_cr |-> (c = CR),
             reached_one_eof |-> TRUE]
     ELSE IF IsMatch(next) THEN PrefixLoop(next, lines, c = CR)
     ELSE [file |-> next, prefix_lines |-> lines, had_cr |-> (c = CR),
           reached_one_eof |-> FALSE]

RECURSIVE BackUpToEol(_)
\* find_identical_prefix: back up to the last eol sequence
BackUpToEol(file) ==
  IF ~is_one_at_bof(file) /\ Deref(file[1], file[1].curp) \notin {LF, CR}
    THEN BackUpToEol(decrement_pointers(file))
    ELSE file

\* find_identical_prefix up to the end of its first loop.  UNINIT is what
\* *reached_one_eof holds when the loop never runs: the caller does not
\* initialise it.
PrefixScan(file, uninit) ==
  IF IsMatch(file) THEN PrefixLoop(file, 0, FALSE)
  ELSE [file |-> file, prefix_lines |-> 0, had_cr |-> FALSE,
        reached_one_eof |-> uninit]

\* find_identical_prefix backing up without the test for a "\r" that one
\* file goes on after with "\n"
PrefixBackedUpToTheCr(r) ==
  [file |-> increment_pointers(BackUpToEol(decrement_pointers(r.file))),
   prefix_lines |-> r.prefix_lines,
   reached_one_eof |-> r.reached_one_eof]

\* find_identical_prefix after the test for reached_all_eof: back to the
\* start of the line of the first difference
PrefixBackedUp(r) ==
  LET ended_at_nonmatching_newline ==
        r.had_cr /\ \E i \in DOMAIN r.file :
                      Deref(r.file[i], r.file[i].curp) = LF
      f1 == IF ended_at_nonmatching_newline THEN decrement_pointers(r.file)
            ELSE r.file
  IN [file |-> increment_pointers(BackUpToEol(decrement_pointers(f1))),
      prefix_lines |-> IF ended_at_nonmatching_newline
                         THEN r.prefix_lines - 1 ELSE r.prefix_lines,
      reached_one_eof |-> r.reached_one_eof]

\* find_identical_prefix without its return for fully identical files
find_identical_prefix_backing_up(file, uninit) ==
  PrefixBackedUp(PrefixScan(file, uninit))

\* find_identical_prefix
find_identical_prefix(file, uninit) ==
  LET r == PrefixScan(file, uninit)
      reached_all_eof == \A i \in DOMAIN file : r.file[i].curp = r.file[i].endp
  IN IF reached_all_eof
       THEN [file |-> r.file, prefix_lines |-> r.prefix_lines,
             reached_one_eof |-> r.reached_one_eof]
       ELSE PrefixBackedUp(r)

RECURSIVE SuffixLoop(_, _, _)
\* the while (is_match) loop of find_identical_suffix
SuffixLoop(file, suffix_min_chunk0, suffix_min_offset0) ==
  LET next == decrement_pointers(file)
      reached_prefix == /\ next[1].chunk = suffix_min_chunk0
                        /\ next[1].curp = suffix_min_offset0
  IN IF reached_prefix \/ is_one_at_bof(next) THEN next
     ELSE IF IsMatch(next)
       THEN SuffixLoop(next, suffix_min_chunk0, suffix_min_offset0)
     ELSE next

RECURSIVE SlideToEol(_)
\* find_identical_suffix: slide forward to an eol sequence
SlideToEol(file) ==
  IF ~is_one_at_eof(file) /\ Deref(file[1], file[1].curp) \notin {LF, CR}
    THEN SlideToEol(increment_pointers(file))
    ELSE file

RECURSIVE KeepLines(_, _)
\* find_identical_suffix: the do ... while (... && suffix_lines_to_keep--)
KeepLines(file, suffix_lines_to_keep) ==
  LET s1 == SlideToEol(file)
      s2 == IF ~is_one_at_eof(s1) /\ Deref(s1[1], s1[1].curp) = CR
              THEN increment_pointers(s1) ELSE s1
      s3 == IF ~is_one_at_eof(s2) /\ Deref(s2[1], s2[1].curp) = LF
              THEN increment_pointers(s2) ELSE s2
  IN IF ~is_one_at_eof(s3) /\ suffix_lines_to_keep # 0
       THEN KeepLines(s3, suffix_lines_to_keep - 1)
       ELSE s3

\* the smallest of the sizes
MinFileSize(file) ==
  CHOOSE m \in {file[i].size : i \in DOMAIN file} :
    \A i \in DOMAIN file : m <= file[i].size

\* find_identical_suffix: a file whose prefix ended in its last chunk lends
\* its buffer to the suffix scan
SuffixShared(f) == offset_to_chunk(f.size) = f.chunk

\* find_identical_suffix: the last chunk of every file is read and curp set
\* to its last byte
SuffixFiles(file) ==
  LET start(i) ==
        LET f == file[i]
            length == offset_in_chunk(f.size)
            fresh == [f EXCEPT !.buf = [k \in 1..ChunkSize |-> f.g]]
        IN [f EXCEPT !.chunk = offset_to_chunk(f.size),
                     !.buf = IF SuffixShared(f) THEN f.buf
                             ELSE read_chunk(fresh, length,
                                    chunk_to_offset(offset_to_chunk(f.size))),
                     !.endp = length,
                     !.curp = length - 1]
  IN [i \in DOMAIN file |-> start(i)]

\* find_identical_suffix: where the scan has to stop in file[0], the end of
\* the identical prefix
SuffixMin(file) ==
  LET over == file[1].size - MinFileSize(file)
  IN [chunk0 |-> file[1].chunk + (over \div ChunkSize),
      offset0 |-> file[1].curp + (over % ChunkSize)]

\* find_identical_suffix up to the end of its first loop
SuffixScan(file) ==
  LET file_for_suffix == SuffixFiles(file)
      min == SuffixMin(file)
  IN IF IsMatch(file_for_suffix)
       THEN SuffixLoop(file_for_suffix, min.chunk0, min.offset0)
       ELSE file_for_suffix

\* find_identical_suffix.  A file that lent its buffer has what the scan
\* left in it afterwards.
find_identical_suffix(file) ==
  LET kept == KeepLines(increment_pointers(SuffixScan(file)),
                        SUFFIX_LINES_TO_KEEP)
  IN [i \in DOMAIN file |->
        [file[i] EXCEPT !.suffix_start_chunk = kept[i].chunk,
                        !.suffix_offset_in_chunk = kept[i].curp,
                        !.buf = IF SuffixShared(file[i]) THEN kept[i].buf
                                ELSE file[i].buf]]

\* datasources_open: the files are opened and their first chunks read
OpenFirstChunks(datas, g) ==
  LET open(i) ==
        LET size == Len(datas[i])
            length == Min(size, ChunkSize)
            f == [data |-> datas[i], size |-> size, chunk |-> 0,
                  buf |-> [k \in 1..ChunkSize |-> g], curp |-> 0,
                  endp |-> length, suffix_start_chunk |-> 0,
                  suffix_offset_in_chunk |-> 0, g |-> g,
                  w |-> Wild[i], wild |-> FALSE]
        IN [f EXCEPT !.buf = read_chunk(f, length, 0)]
  IN [i \in DOMAIN datas |-> open(i)]

\* datasources_open: the first chunk of every file, then the two scans
datasources_open(datas, g, uninit) ==
  LET file == OpenFirstChunks(datas, g)
      p == find_identical_prefix(file, uninit)
  IN IF \E i \in DOMAIN datas : Len(datas[i]) = 0
       THEN [file |-> file, prefix_lines |-> 0]
     ELSE IF p.reached_one_eof
       THEN [file |-> p.file, prefix_lines |-> p.prefix_lines]
     ELSE [file |-> find_identical_suffix(p.file),
           prefix_lines |-> p.prefix_lines]

\* svn_eol__find_eol_start: the offset of the first CR or LF in curp..endp-1,
\* or -1
find_eol_start(f, curp, endp) ==
  LET at == {p \in curp..(endp - 1) : Deref(f, p) \in {LF, CR}}
  IN IF at = {} THEN -1 ELSE CHOOSE p \in at : \A q \in at : p <= q

RECURSIVE TokenLoop(_, _, _, _)
\* the while (1) loop of datasource_get_next_token: [file, curp, eol,
\* raw_length] at the break
TokenLoop(f, curp, endp, raw_length) ==
  LET last_chunk == offset_to_chunk(f.size)
      found == find_eol_start(f, curp, endp)
      had_cr == found # -1 /\ Deref(f, found) = CR
      eol == found + 1
      length == IF f.chunk + 1 = last_chunk THEN offset_in_chunk(f.size)
                ELSE ChunkSize
      next == [f EXCEPT !.chunk = f.chunk + 1,
                        !.endp = length,
                        !.buf = read_chunk(f, length,
                                  chunk_to_offset(f.chunk + 1))]
  IN IF found # -1 /\ ~(had_cr /\ eol = endp)
       THEN [file |-> f, curp |-> curp,
             eol |-> IF had_cr /\ Deref(f, eol) = LF THEN eol + 1 ELSE eol,
             raw_length |-> raw_length]
     ELSE IF f.chunk = last_chunk
       THEN [file |-> f, curp |-> curp, eol |-> endp,
             raw_length |-> raw_length]
     ELSE IF had_cr
       THEN [file |-> next, curp |-> 0,
             eol |-> IF Deref(next, 0) = LF THEN 1 ELSE 0,
             raw_length |-> raw_length + (endp - curp)]
     ELSE TokenLoop(next, 0, length, raw_length + (endp - curp))

\* datasource_get_next_token: [file, token], token <<>> when *token is NULL
datasource_get_next_token(f) ==
  LET last_chunk == offset_to_chunk(f.size)
      t == TokenLoop(f, f.curp, f.endp, 0)
      raw_length == t.raw_length + (t.eol - t.curp)
  IN IF f.curp = f.endp /\ last_chunk = f.chunk
       THEN [file |-> f, token |-> <<>>]
     ELSE IF f.curp > f.endp
       THEN [file |-> [f EXCEPT !.wild = TRUE], token |-> <<>>]
     ELSE IF /\ (f.suffix_start_chunk # 0 \/ f.suffix_offset_in_chunk # 0)
             /\ f.chunk = f.suffix_start_chunk
             /\ f.curp = f.suffix_offset_in_chunk
       THEN [file |-> f, token |-> <<>>]
     ELSE [file |-> [t.file EXCEPT !.curp = t.eol],
           token |-> IF raw_length > 0
                       THEN <<[offset |-> chunk_to_offset(f.chunk) + f.curp,
                               raw_length |-> raw_length]>>
                       ELSE <<>>]

\* ------------------------------------------------------------- DiffSpec
\* In DiffSpec u is [pc, datas, g, uninit, file, prefix_lines, start, src,
\* tokens]:
\* the contents of the two or three datasources, the two values the program
\* reads without having written them, the file_info of every datasource, and
\* the tokens datasource_get_next_token has returned for every datasource;
\* start[i] is where datasource i stood when datasources_open returned.
\* svn_diff__get_tokens reads the datasources one after the other, each
\* until no token is returned.
RECURSIVE SeqsUpTo(_)
SeqsUpTo(n) ==
  IF n = 0 THEN {<<>>}
  ELSE LET shorter == SeqsUpTo(n - 1)
       IN shorter \cup {Append(s, b) : s \in {x \in shorter : Len(x) = n - 1},
                                       b \in DiffBytes}

Heads == SeqsUpTo(MaxHead)
TailLens == {0, SUFFIX_LINES_TO_KEEP + 2, SUFFIX_LINES_TO_KEEP + 3}
Lines(n) == [i \in 1..n |-> LF]

DiffInit ==
  /\ Create
  /\ xdev = FALSE
  /\ \E h1 \in Heads, h2 \in Heads, third \in 0..2, t \in TailLens,
        g \in {"a", LF}, uninit \in BOOLEAN :
       LET d1 == h1 \o Lines(t)
           d2 == h2 \o Lines(t)
           datas == IF third = 0 THEN <<d1, d2>>
                    ELSE IF third = 1 THEN <<d1, d2, d1>>
                    ELSE <<d1, d2, d2>>
       IN u = [pc |-> "open", datas |-> datas, g |-> g, uninit |-> uninit,
               file |-> <<>>, prefix_lines |-> 0,
               start |-> [i \in DOMAIN datas |-> 0], src |-> 0,
               tokens |-> [i \in DOMAIN datas |-> <<>>]]

DiffOpen ==
  /\ u.pc = "open"
  /\ LET r == datasources_open(u.datas, u.g, u.uninit)
     IN u' = [u EXCEPT !.pc = "tokens", !.file = r.file,
                       !.prefix_lines = r.prefix_lines, !.src = 1,
                       !.start = [i \in DOMAIN u.datas |->
                                    chunk_to_offset(r.file[i].chunk)
                                      + r.file[i].curp]]
  /\ UNCHANGED fsvars

DiffGetNextToken ==
  /\ u.pc = "tokens"
  /\ LET r == datasource_get_next_token(u.file[u.src])
     IN u' = IF r.token # <<>>
               THEN [u EXCEPT !.file[u.src] = r.file,
                              !.tokens[u.src] = Append(@, r.token[1])]
             ELSE IF u.src < Len(u.datas)
               THEN [u EXCEPT !.file[u.src] = r.file, !.src = u.src + 1]
             ELSE [u EXCEPT !.file[u.src] = r.file, !.pc = "done"]
  /\ UNCHANGED fsvars

DiffNext ==
  \/ DiffOpen
  \/ DiffGetNextToken

DiffSpec == DiffInit /\ [][DiffNext]_vars

\* where datasource i stands in its file
DiffPosition(i) == chunk_to_offset(u.file[i].chunk) + u.file[i].curp

\* C21: when all the datasources are byte-identical, whatever their size, the
\* prefix scan consumes each of them completely and no call of
\* datasource_get_next_token returns a token.
C21_IdenticalSourcesGiveNoTokens ==
  (/\ u.pc # "open"
   /\ \A i \in DOMAIN u.datas : u.datas[i] = u.datas[1])
    => \A i \in DOMAIN u.datas :
         /\ u.tokens[i] = <<>>
         /\ DiffPosition(i) = Len(u.datas[i])
         /\ ~u.file[i].wild

C21_Witness ==
  /\ u.pc = "done"
  /\ Len(u.datas) = 3
  /\ \A i \in DOMAIN u.datas : u.datas[i] = u.datas[1]
  /\ Len(u.datas[1]) > ChunkSize
  /\ Len(u.datas[1]) % ChunkSize = 0

\* where the identical suffix of datasource i starts: the end of the file
\* when no suffix was recorded
SuffixStart(i) ==
  LET f == u.file[i]
  IN IF f.suffix_start_chunk # 0 \/ f.suffix_offset_in_chunk # 0
       THEN chunk_to_offset(f.suffix_start_chunk) + f.suffix_offset_in_chunk
       ELSE f.size

\* the raw bytes of a token end right after exactly one terminator of data
EndsAfterOneTerminator(data, t) ==
  LET last == t.offset + t.raw_length
      bytes == [k \in 1..t.raw_length |-> data[t.offset + k]]
      n == t.raw_length
      body == IF n >= 2 /\ bytes[n] = LF /\ bytes[n - 1] = CR THEN n - 2
              ELSE n - 1
  IN /\ bytes[n] \in {LF, CR}
     /\ \A k \in 1..body : bytes[k] \notin {LF, CR}
     /\ ~(bytes[n] = CR /\ last < Len(data) /\ data[last + 1] = LF)

\* the tokens of datasource i are consecutive from the end of the prefix to
\* the start of the suffix
TokensCover(i) ==
  LET ts == u.tokens[i]
  IN /\ \A k \in 1..Len(ts) :
          ts[k].offset = IF k = 1 THEN u.start[i]
                         ELSE ts[k - 1].offset + ts[k - 1].raw_length
     /\ IF ts = <<>> THEN u.start[i] = SuffixStart(i)
        ELSE ts[Len(ts)].offset + ts[Len(ts)].raw_length = SuffixStart(i)

\* every token lies in the file, is not empty and, unless it is the last of
\* the file, ends after one terminator
TokensAreLines(i) ==
  \A k \in 1..Len(u.tokens[i]) :
    LET t == u.tokens[i][k]
    IN /\ t.raw_length > 0
       /\ t.offset + t.raw_length <= Len(u.datas[i])
       /\ (t.offset + t.raw_length < Len(u.datas[i])
             => EndsAfterOneTerminator(u.datas[i], t))

\* C22: for every content and every position of the chunk boundaries, the
\* tokens of a datasource are consecutive and cover the region between the
\* identical prefix and the identical suffix, none is empty, and each but
\* possibly the last of the file ends right after exactly one terminator.
C22_TokensAreTheLinesBetweenPrefixAndSuffix ==
  u.pc = "done" =>
    \A i \in DOMAIN u.datas :
      /\ ~u.file[i].wild
      /\ TokensCover(i)
      /\ TokensAreLines(i)

\* ============================================= diff_file.c: unified output
\* The two files are read line by line: line k (from 0) of file idx is the
\* pair <<idx, k>>.  The baton is [current_line, hunk_start, hunk_length,
\* hunk], the four with an entry for the original (1) and the modified (2)
\* file where the source has [0] and [1]; hunk is the text collected for the
\* current hunk, a sequence of [p, line] with p the prefix " ", "-" or "+".
\* A written hunk is [orig, mod, body] where orig and mod are the numbers
\* printed after "-" and "+" in the header: <<a>> or <<a, b>>.
SVN_DIFF__UNIFIED_CONTEXT_SIZE == 3
MaxGap == 7
MaxTail == 4
MaxRun == 1
MaxRanges == 2

\* output_unified_line: N is the number of lines of the two files
output_unified_line(baton, type, idx, n) ==
  LET line == baton.current_line[idx]
      b1 == [baton EXCEPT !.current_line[idx] = line + 1]
  IN IF line >= n[idx] THEN b1
     ELSE IF type = "context"
       THEN [b1 EXCEPT !.hunk = Append(@, [p |-> " ", line |-> <<idx, line>>]),
                       !.hunk_length = <<@[1] + 1, @[2] + 1>>]
     ELSE IF type = "delete"
       THEN [b1 EXCEPT !.hunk = Append(@, [p |-> "-", line |-> <<idx, line>>]),
                       !.hunk_length[1] = @ + 1]
     ELSE IF type = "insert"
       THEN [b1 EXCEPT !.hunk = Append(@, [p |-> "+", line |-> <<idx, line>>]),
                       !.hunk_length[2] = @ + 1]
     ELSE b1

RECURSIVE OutputLinesUpTo(_, _, _, _, _)
\* while (baton->current_line[idx] < target_line) output_unified_line (...)
OutputLinesUpTo(baton, type, idx, target_line, n) ==
  IF baton.current_line[idx] < target_line
    THEN OutputLinesUpTo(output_unified_line(baton, type, idx, n), type, idx,
                         target_line, n)
    ELSE baton

\* the "-%ld[,%ld]" and "+%ld[,%ld]" of the hunk header
HunkRange(start, length) ==
  IF length # 1 THEN <<start, length>> ELSE <<start>>

\* output_unified_flush_hunk: [baton, out]
output_unified_flush_hunk(baton, out, n) ==
  IF baton.hunk = <<>> THEN [baton |-> baton, out |-> out]
  ELSE LET target_line == baton.hunk_start[1] + baton.hunk_length[1]
                            + SVN_DIFF__UNIFIED_CONTEXT_SIZE
           b1 == OutputLinesUpTo(baton, "context", 1, target_line, n)
           start == [i \in 1..2 |-> IF b1.hunk_length[i] > 0
                                      THEN b1.hunk_start[i] + 1
                                      ELSE b1.hunk_start[i]]
       IN [baton |-> [b1 EXCEPT !.hunk_start = start,
                                !.hunk_length = <<0, 0>>,
                                !.hunk = <<>>],
           out |-> Append(out,
                     [orig |-> HunkRange(start[1], b1.hunk_length[1]),
                      mod |-> HunkRange(start[2], b1.hunk_length[2]),
                      body |-> b1.hunk])]

\* the test of output_unified_diff_modified for starting a new hunk
StartsNewHunk(baton, target_line0) ==
  /\ baton.current_line[1] < target_line0
  /\ \/ baton.hunk_start[1] + baton.hunk_length[1]
          + SVN_DIFF__UNIFIED_CONTEXT_SIZE < target_line0
     \/ baton.hunk_length[1] = 0

\* output_unified_diff_modified: [baton, out]
output_unified_diff_modified(baton, out, r, n) ==
  LET target_line0 == IF r.original_start >= SVN_DIFF__UNIFIED_CONTEXT_SIZE
                        THEN r.original_start - SVN_DIFF__UNIFIED_CONTEXT_SIZE
                        ELSE 0
      target_line1 == r.modified_start
      new == StartsNewHunk(baton, target_line0)
      flushed == output_unified_flush_hunk(baton, out, n)
      b1 == IF new
              THEN OutputLinesUpTo(
                     [flushed.baton EXCEPT !.hunk_start =
                        <<target_line0,
                          target_line1 + target_line0 - r.original_start>>],
                     "skip", 1, target_line0, n)
              ELSE baton
      b2 == OutputLinesUpTo(b1, "skip", 2, target_line1, n)
      b3 == OutputLinesUpTo(b2, "context", 1, r.original_start, n)
      b4 == OutputLinesUpTo(b3, "delete", 1,
                            r.original_start + r.original_length, n)
      b5 == OutputLinesUpTo(b4, "insert", 2,
                            r.modified_start + r.modified_length, n)
  IN [baton |-> b5, out |-> IF new THEN flushed.out ELSE out]

\* ---------------------------------------------------------- UnifiedSpec
\* In UnifiedSpec u is [pc, n, ranges, k, baton, out]: the numbers of lines
\* of the two files, the changed ranges of their diff in order, the number of
\* ranges svn_diff_output has handed over, the baton and the hunks written.
\* A diff is drawn as the unchanged lines before its first range, each range
\* with its numbers of deleted and inserted lines, the unchanged lines
\* between two ranges (at least one) and the unchanged lines after the last.
Runs == {r \in (0..MaxRun) \X (0..MaxRun) : r # <<0, 0>>}

RECURSIVE RangesOf(_, _, _, _)
\* the svn_diff_t ranges of type diff_modified for the gaps and runs drawn
RangesOf(gaps, runs, os, ms) ==
  IF runs = <<>> THEN <<>>
  ELSE LET r == [original_start |-> os + Head(gaps),
                 original_length |-> Head(runs)[1],
                 modified_start |-> ms + Head(gaps),
                 modified_length |-> Head(runs)[2]]
       IN <<r>> \o RangesOf(Tail(gaps), Tail(runs),
                            r.original_start + r.original_length,
                            r.modified_start + r.modified_length)

UnifiedInit ==
  /\ Create
  /\ xdev = FALSE
  /\ \E m \in 1..MaxRanges, tail \in 0..MaxTail :
       \E gaps \in [1..m -> 0..MaxGap], runs \in [1..m -> Runs] :
         /\ \A i \in 2..m : gaps[i] >= 1
         /\ LET ranges == RangesOf(gaps, runs, 0, 0)
                last == ranges[m]
            IN u = [pc |-> "output", ranges |-> ranges, k |-> 0,
                    n |-> <<last.original_start + last.original_length + tail,
                            last.modified_start + last.modified_length + tail>>,
                    baton |-> [current_line |-> <<0, 0>>,
                               hunk_start |-> <<0, 0>>,
                               hunk_length |-> <<0, 0>>, hunk |-> <<>>],
                    out |-> <<>>]

\* svn_diff_output hands the next range to output_unified_diff_modified
UnifiedDiffModified ==
  /\ u.pc = "output"
  /\ u.k < Len(u.ranges)
  /\ LET r == output_unified_diff_modified(u.baton, u.out, u.ranges[u.k + 1],
                                           u.n)
     IN u' = [u EXCEPT !.k = u.k + 1, !.baton = r.baton, !.out = r.out]
  /\ UNCHANGED fsvars

\* svn_diff_file_output_unified3 after svn_diff_output: the last hunk
UnifiedFlushLast ==
  /\ u.pc = "output"
  /\ u.k = Len(u.ranges)
  /\ LET r == output_unified_flush_hunk(u.baton, u.out, u.n)
     IN u' = [u EXCEPT !.pc = "done", !.baton = r.baton, !.out = r.out]
  /\ UNCHANGED fsvars

UnifiedNext ==
  \/ UnifiedDiffModified
  \/ UnifiedFlushLast

UnifiedSpec == UnifiedInit /\ [][UnifiedNext]_vars

\* the body lines of a hunk that count for the original (1) or modified (2)
BodyLines(h, idx) ==
  SelectSeq(h.body, LAMBDA e : e.p = " " \/ e.p = (IF idx = 1 THEN "-" ELSE "+"))

\* the number of the range a changed line belongs to
RangeOfLine(line) ==
  CHOOSE j \in 1..Len(u.ranges) :
    IF line[1] = 1
      THEN /\ u.ranges[j].original_start <= line[2]
           /\ line[2] < u.ranges[j].original_start + u.ranges[j].original_length
      ELSE /\ u.ranges[j].modified_start <= line[2]
           /\ line[2] < u.ranges[j].modified_start + u.ranges[j].modified_length

\* the line number (from 0) in file idx of a body line: a context line is
\* read from the original file and stands in the modified file shifted by
\* the lines the ranges before it inserted and deleted
RECURSIVE Shift(_, _)
Shift(line, j) ==
  IF j = 0 THEN 0
  ELSE Shift(line, j - 1)
         + (IF u.ranges[j].original_start + u.ranges[j].original_length <= line
              THEN u.ranges[j].modified_length - u.ranges[j].original_length
              ELSE 0)

LineNumberIn(e, idx) ==
  IF e.line[1] = idx THEN e.line[2]
  ELSE IF e.p = " " THEN e.line[2] + Shift(e.line[2], Len(u.ranges))
  ELSE IF idx = 1 THEN u.ranges[RangeOfLine(e.line)].original_start
  ELSE u.ranges[RangeOfLine(e.line)].modified_start

\* the header numbers of one side agree with the body
HeaderAgrees(h, idx) ==
  LET hdr == IF idx = 1 THEN h.orig ELSE h.mod
      lines == BodyLines(h, idx)
      count == IF Len(hdr) = 1 THEN 1 ELSE hdr[2]
  IN /\ count = Len(lines)
     /\ (Len(hdr) = 1 <=> Len(lines) = 1)
     /\ hdr[1] = IF lines # <<>> THEN LineNumberIn(lines[1], idx) + 1
                 ELSE LineNumberIn(h.body[1], idx)

\* C23: in every hunk written, b is the number of " " and "-" body lines and
\* d the number of " " and "+" body lines, a and c are the 1-based numbers of
\* the first such line in the original and in the modified file (the 0-based
\* start when the count is 0), and ",b" or ",d" is left out exactly when the
\* count is 1.
C23_HunkHeadersAgreeWithBodies ==
  \A k \in 1..Len(u.out) :
    HeaderAgrees(u.out[k], 1) /\ HeaderAgrees(u.out[k], 2)

\* the hunk that holds the changed lines of range j
HunkOfRange(j) ==
  CHOOSE k \in 1..Len(u.out) :
    \E i \in 1..Len(u.out[k].body) :
      LET e == u.out[k].body[i]
      IN e.p # " " /\ RangeOfLine(e.line) = j

\* C24: two consecutive changed ranges share a hunk exactly when at most
\* 2 * 3 unchanged original lines lie between them, pure insertions included.
C24_MergedExactlyWhenContextsTouch ==
  u.pc = "done" =>
    \A j \in 1..(Len(u.ranges) - 1) :
      (HunkOfRange(j) = HunkOfRange(j + 1))
        <=> (u.ranges[j + 1].original_start
               - (u.ranges[j].original_start + u.ranges[j].original_length)
             <= 2 * SVN_DIFF__UNIFIED_CONTEXT_SIZE)

\* ======================================= diff_file.c: only_conflicts output
\* svn_diff_file_output_merge2 with the style only_conflicts.  Line k (from
\* 0) of file idx (1 original, 2 modified, 3 latest, where the source has 0,
\* 1, 2) is <<idx, k>>.  The baton is [current_line, output_stream,
\* context_saver, lines_to_print, out]: output_stream is "saver" (the stream
\* of the context saver), "trailing" (a trailing context printer) or "real";
\* context_saver is [data, next_slot, total_written] with data[s] = <<>> for
\* a slot that holds NULL; out is what was written to the real output
\* stream, a sequence of [t, v]: t = "marker" for "@@" and the four conflict
\* markers, t = "line" for a line of a file.
\* While a trailing context printer is the output stream, context_saver
\* still points at the saver that make_trailing_context_printer cleared with
\* its pool; the pool hands that memory to the printer, so that the word
\* compared with output_stream in output_conflict_with_context is then
\* lines_to_print and the comparison fails.
MaxCommon == 7
MaxSegs == 4

NewContextSaver ==
  [data |-> [s \in 0..(SVN_DIFF__UNIFIED_CONTEXT_SIZE - 1) |-> <<>>],
   next_slot |-> 0, total_written |-> 0]

\* make_context_saver
make_context_saver(fob) ==
  [fob EXCEPT !.context_saver = NewContextSaver, !.output_stream = "saver"]

\* make_trailing_context_printer
make_trailing_context_printer(btn) ==
  [btn EXCEPT !.lines_to_print = SVN_DIFF__UNIFIED_CONTEXT_SIZE,
              !.output_stream = "trailing"]

\* context_saver_stream_write
context_saver_stream_write(btn, line) ==
  LET cs == btn.context_saver
  IN [btn EXCEPT !.context_saver =
        [data |-> [cs.data EXCEPT ![cs.next_slot] = <<line>>],
         next_slot |-> (cs.next_slot + 1) % SVN_DIFF__UNIFIED_CONTEXT_SIZE,
         total_written |-> cs.total_written + 1]]

\* trailing_context_printer_write
trailing_context_printer_write(btn, line) ==
  LET b1 == [btn EXCEPT !.out = Append(@, [t |-> "line", v |-> line]),
                        !.lines_to_print = @ - 1]
  IN IF b1.lines_to_print = 0 THEN make_context_saver(b1) ELSE b1

\* svn_stream_write (baton->output_stream, ...) for one line
StreamWriteLine(btn, line) ==
  IF btn.output_stream = "saver" THEN context_saver_stream_write(btn, line)
  ELSE IF btn.output_stream = "trailing"
    THEN trailing_context_printer_write(btn, line)
  ELSE [btn EXCEPT !.out = Append(@, [t |-> "line", v |-> line])]

RECURSIVE FlushSlots(_, _, _)
\* flush_context_saver: the slots from next_slot on, the NULL ones left out
FlushSlots(cs, i, out) ==
  IF i = SVN_DIFF__UNIFIED_CONTEXT_SIZE THEN out
  ELSE LET slot == (i + cs.next_slot) % SVN_DIFF__UNIFIED_CONTEXT_SIZE
       IN FlushSlots(cs, i + 1,
                     IF cs.data[slot] # <<>>
                       THEN Append(out, [t |-> "line", v |-> cs.data[slot][1]])
                       ELSE out)

\* flush_context_saver that writes the slots from slot 0 on
flush_context_saver_from_slot_0(btn) ==
  [btn EXCEPT !.out = FlushSlots([btn.context_saver EXCEPT !.next_slot = 0],
                                 0, btn.out)]

\* flush_context_saver
flush_context_saver(btn) ==
  [btn EXCEPT !.out = FlushSlots(btn.context_saver, 0, btn.out)]

\* output_line: N is the number of lines of the three files
output_line(btn, type, idx, n) ==
  LET line == btn.current_line[idx]
      b1 == [btn EXCEPT !.current_line[idx] = line + 1]
  IN IF line >= n[idx] \/ type = "skip" THEN b1
     ELSE StreamWriteLine(b1, <<idx, line>>)

RECURSIVE MergeLinesUpTo(_, _, _, _, _)
\* while (current_line[idx] < target_line) output_line (...)
MergeLinesUpTo(btn, type, idx, target_line, n) ==
  IF btn.current_line[idx] < target_line
    THEN MergeLinesUpTo(output_line(btn, type, idx, n), type, idx,
                        target_line, n)
    ELSE btn

\* output_hunk
output_hunk(btn, idx, target_line, target_length, n) ==
  MergeLinesUpTo(MergeLinesUpTo(btn, "skip", idx, target_line, n),
                 "normal", idx, target_line + target_length, n)

\* svn_stream_printf of a marker to the real output stream
WriteMarker(btn, s) ==
  [btn EXCEPT !.out = Append(@, [t |-> "marker", v |-> s])]

\* the test of output_conflict_with_context for writing "@@", without ">"
SeparatorWantedWheneverSaved(cs) ==
  cs.total_written >= SVN_DIFF__UNIFIED_CONTEXT_SIZE

\* the test of output_conflict_with_context for writing "@@"
SeparatorWanted(cs) ==
  cs.total_written > SVN_DIFF__UNIFIED_CONTEXT_SIZE

\* output_conflict_with_context
output_conflict_with_context(btn, r, n) ==
  LET b1 == IF btn.output_stream = "saver"
              THEN flush_context_saver(
                     IF SeparatorWanted(btn.context_saver)
                       THEN WriteMarker(btn, "@@") ELSE btn)
              ELSE btn
      b2 == WriteMarker([b1 EXCEPT !.output_stream = "real"], "<<<<<<<")
      b3 == output_hunk(b2, 2, r.modified_start, r.modified_length, n)
      b4 == output_hunk(WriteMarker(b3, "|||||||"), 1, r.original_start,
                        r.original_length, n)
      b5 == output_hunk(WriteMarker(b4, "======="), 3, r.latest_start,
                        r.latest_length, n)
  IN make_trailing_context_printer(WriteMarker(b5, ">>>>>>>"))

\* the functions of svn_diff3__file_output_vtable
MergeOutputRange(btn, r, n) ==
  IF r.type = "conflict" THEN output_conflict_with_context(btn, r, n)
  ELSE IF r.type = "diff_latest"
    THEN output_hunk(btn, 3, r.latest_start, r.latest_length, n)
  ELSE output_hunk(btn, 2, r.modified_start, r.modified_length, n)

\* ------------------------------------------------------------ MergeSpec
\* In MergeSpec u is [pc, n, ranges, k, baton]: the numbers of lines of the
\* three files, the ranges of the svn_diff_t in order, the number of ranges
\* svn_diff_output has handed over, and the baton.
\* A range is drawn as its type and the lengths <<original, modified,
\* latest>> it has in the three files.
Segments ==
  {[type |-> "common", len |-> <<k, k, k>>] : k \in 1..MaxCommon}
    \cup {[type |-> "diff_modified", len |-> <<1, k, 1>>] : k \in 0..2}
    \cup {[type |-> "diff_latest", len |-> <<1, 1, k>>] : k \in 0..2}
    \cup {[type |-> "diff_common", len |-> <<1, 2, 2>>],
          [type |-> "conflict", len |-> <<1, 1, 2>>],
          [type |-> "conflict", len |-> <<0, 1, 1>>]}

RECURSIVE MergeRanges(_, _)
\* the ranges of the segments drawn, from the lines START of the three files
MergeRanges(segs, start) ==
  IF segs = <<>> THEN <<>>
  ELSE LET s == Head(segs)
           r == [type |-> s.type,
                 original_start |-> start[1], original_length |-> s.len[1],
                 modified_start |-> start[2], modified_length |-> s.len[2],
                 latest_start |-> start[3], latest_length |-> s.len[3]]
       IN <<r>> \o MergeRanges(Tail(segs),
                               [i \in 1..3 |-> start[i] + s.len[i]])

MergeInit ==
  /\ Create
  /\ xdev = FALSE
  /\ \E m \in 1..MaxSegs :
       \E segs \in [1..m -> Segments] :
         LET ranges == MergeRanges(segs, <<0, 0, 0>>)
             last == ranges[m]
         IN u = [pc |-> "output", ranges |-> ranges, k |-> 0,
                 n |-> <<last.original_start + last.original_length,
                         last.modified_start + last.modified_length,
                         last.latest_start + last.latest_length>>,
                 baton |-> [current_line |-> <<0, 0, 0>>,
                            output_stream |-> "saver",
                            context_saver |-> NewContextSaver,
                            lines_to_print |-> 0, out |-> <<>>]]

\* svn_diff_output hands the next range to the function for its type
MergeOutput ==
  /\ u.pc = "output"
  /\ u.k < Len(u.ranges)
  /\ u' = [u EXCEPT !.k = u.k + 1,
                    !.baton = MergeOutputRange(u.baton, u.ranges[u.k + 1], u.n)]
  /\ UNCHANGED fsvars

\* svn_diff_output returns
MergeDone ==
  /\ u.pc = "output"
  /\ u.k = Len(u.ranges)
  /\ u' = [u EXCEPT !.pc = "done"]
  /\ UNCHANGED fsvars

MergeNext ==
  \/ MergeOutput
  \/ MergeDone

MergeSpec == MergeInit /\ [][MergeNext]_vars

\* ---- what the ranges say, for the claims about only_conflicts output
RECURSIVE MergeItems(_)
\* The merged result in order: <<"line", l>> for each line a range that is
\* no conflict puts out, <<"conflict">> for each conflict.
MergeItems(ranges) ==
  IF ranges = <<>> THEN <<>>
  ELSE LET r == Head(ranges)
           here ==
             IF r.type = "conflict" THEN << <<"conflict">> >>
             ELSE IF r.type = "diff_latest"
               THEN [i \in 1..r.latest_length |->
                       <<"line", <<3, r.latest_start + i - 1>> >>]
             ELSE [i \in 1..r.modified_length |->
                     <<"line", <<2, r.modified_start + i - 1>> >>]
       IN here \o MergeItems(Tail(ranges))

IsConflictItem(x) == x[1] = "conflict"

\* the lines of ITEMS with a conflict among the 3 items before or after them
NearConflict(items, p) ==
  \E q \in 1..Len(items) :
    /\ IsConflictItem(items[q])
    /\ q # p
    /\ q - p <= SVN_DIFF__UNIFIED_CONTEXT_SIZE
    /\ p - q <= SVN_DIFF__UNIFIED_CONTEXT_SIZE

RECURSIVE ContextExpected(_, _)
ContextExpected(items, p) ==
  IF p > Len(items) THEN <<>>
  ELSE (IF ~IsConflictItem(items[p]) /\ NearConflict(items, p)
          THEN <<items[p][2]>> ELSE <<>>)
       \o ContextExpected(items, p + 1)

\* the lines of the real output that no conflict's three hunks hold
ContextWritten(out, items) ==
  LET lines == {items[p][2] : p \in {q \in 1..Len(items) :
                                       ~IsConflictItem(items[q])}}
      IsContext(x) == x.t = "line" /\ x.v \in lines
      sel == SelectSeq(out, IsContext)
  IN [i \in 1..Len(sel) |-> sel[i].v]

\* the "@@" and "<<<<<<<" lines of the real output, in order
SeparatorsWritten(out) ==
  LET IsSep(x) == x.t = "marker" /\ x.v \in {"@@", "<<<<<<<"}
      sel == SelectSeq(out, IsSep)
  IN [i \in 1..Len(sel) |-> sel[i].v]

RECURSIVE SeparatorsExpected(_, _, _, _)
\* "@@" before a conflict with more than 2 * 3 lines since the conflict
\* before it and, where FIRST is TRUE, before the first conflict with more
\* than 3 lines before it; GAP is the number of lines since the last
\* conflict, SEEN whether there was one
SeparatorsExpected(items, gap, seen, first) ==
  IF items = <<>> THEN <<>>
  ELSE IF IsConflictItem(Head(items))
    THEN (IF \/ seen /\ gap > 2 * SVN_DIFF__UNIFIED_CONTEXT_SIZE
             \/ first /\ ~seen /\ gap > SVN_DIFF__UNIFIED_CONTEXT_SIZE
            THEN <<"@@">> ELSE <<>>)
         \o <<"<<<<<<<">> \o SeparatorsExpected(Tail(items), 0, TRUE, first)
  ELSE SeparatorsExpected(Tail(items), gap + 1, seen, first)

\* every "@@" stands right before the 3 lines of leading context of a
\* conflict, and right after the 3 lines of trailing context of the conflict
\* before it where there is one
SeparatorsBetweenContexts(out) ==
  \A p \in 1..Len(out) :
    out[p] = [t |-> "marker", v |-> "@@"] =>
      /\ p + SVN_DIFF__UNIFIED_CONTEXT_SIZE + 1 <= Len(out)
      /\ \A i \in 1..SVN_DIFF__UNIFIED_CONTEXT_SIZE : out[p + i].t = "line"
      /\ out[p + SVN_DIFF__UNIFIED_CONTEXT_SIZE + 1]
           = [t |-> "marker", v |-> "<<<<<<<"]
      /\ p > 1 =>
           /\ p - SVN_DIFF__UNIFIED_CONTEXT_SIZE - 1 >= 1
           /\ \A i \in 1..SVN_DIFF__UNIFIED_CONTEXT_SIZE : out[p - i].t = "line"
           /\ out[p - SVN_DIFF__UNIFIED_CONTEXT_SIZE - 1]
                = [t |-> "marker", v |-> ">>>>>>>"]

MergeFinished == "pc" \in DOMAIN u /\ "baton" \in DOMAIN u /\ u.pc = "done"

\* C25 as stated: in only_conflicts output "@@" is written exactly between
\* two consecutive conflicts with more lines between them than the trailing
\* context of the first and the leading context of the second, and nowhere
\* else.
C25_SeparatorOnlyBetweenConflicts ==
  MergeFinished =>
    /\ SeparatorsWritten(u.baton.out)
         = SeparatorsExpected(MergeItems(u.ranges), 0, FALSE, FALSE)
    /\ SeparatorsBetweenContexts(u.baton.out)

\* C25 amended: in only_conflicts output "@@" is written exactly between two
\* consecutive conflicts with more than 6 lines between them and before the
\* first conflict when more than 3 lines precede it, each time right before
\* the leading context, and nowhere else.
C25_SeparatorWhereLinesWereLeftOut ==
  MergeFinished =>
    /\ SeparatorsWritten(u.baton.out)
         = SeparatorsExpected(MergeItems(u.ranges), 0, FALSE, TRUE)
    /\ SeparatorsBetweenContexts(u.baton.out)

\* two conflicts with 7 lines between them and at most 3 before the first
C25_Witness ==
  /\ MergeFinished
  /\ SeparatorsWritten(u.baton.out) = <<"<<<<<<<", "@@", "<<<<<<<">>

\* C26: in only_conflicts output a line outside the conflicts is written to
\* the real output stream exactly when it is one of the 3 lines right before
\* or right after a conflict, once and in the order of the source.
C26_ContextIsThreeLinesAroundConflicts ==
  MergeFinished =>
    ContextWritten(u.baton.out, MergeItems(u.ranges))
      = ContextExpected(MergeItems(u.ranges), 1)

\* two conflicts with 2 lines between them, and lines left out before
C26_Witness ==
  /\ MergeFinished
  /\ Len(u.ranges) = 3
  /\ u.ranges[1].type = "conflict"
  /\ u.ranges[2].type = "common"
  /\ u.ranges[2].modified_length = 2
  /\ u.ranges[3].type = "conflict"
  /\ Len(ContextWritten(u.baton.out, MergeItems(u.ranges))) = 2

\* ================================================ changed paths at commit
\* C27: once commit has written the folded changed-path log, every entry
\* whose id in the transaction's change log is scoped to the transaction and
\* whose node write_final_rev has written into the new revision carries the
\* permanent id of that node.
C27_ChangedPathsCarryPermanentIds ==
  \A p \in Procs :
    pc[p] = "c_trailer" =>
      LET d == Dir(p)
          fold == TxnChangesFetch(d)
      IN \A path \in DOMAIN fold.changes :
           LET c == fold.changes[path]
               key == <<c.id[1].node, c.id[1].copy>>
           IN (/\ c.id # <<>>
               /\ IsTxnId(c.id[1])
               /\ key \in DOMAIN d.nodes
               /\ ~IsTxnId(d.nodes[key].id)
               /\ d.nodes[key].id.rev = loc[p].new_rev)
                => \E i \in (loc[p].changes_off + 1) .. Len(d.rev.data) :
                     /\ d.rev.data[i].t = "change"
                     /\ d.rev.data[i].path = path
                     /\ d.rev.data[i].id = <<d.nodes[key].id>>

\* C28: folding a reset for a path that has no entry in the folded set
\* leaves the set without an entry for the path and the copyfrom cache
\* without a copyfrom for it.
C28_ResetOfUnknownPathLeavesNothing ==
  [][\A c \in FoldChanges :
       (/\ FoldNextChange(c)
        /\ c.kind = "reset"
        /\ c.path \notin DOMAIN u.st.changes)
         => /\ c.path \notin DOMAIN u'.st.changes
            /\ c.path \notin DOMAIN u'.st.copyfrom]_vars

\* C29: when write_final_changed_path_info writes the folded changes, the
\* copyfrom cache holds a string, possibly empty, for every path of the
\* folded set, paths whose kind is delete included, and one entry of two
\* lines is written for each path.
C29_EveryFoldedPathIsWrittenWithCopyfrom ==
  [][\A order \in Orders(DOMAIN u.st.changes) :
       WriteFoldedChanges(order)
         => /\ \A path \in DOMAIN u.st.changes : path \in DOMAIN u.st.copyfrom
            /\ (\A path \in DOMAIN u.st.changes : u.st.changes[path].id # <<>>)
                 => /\ u'.pc = "committed"
                    /\ Len(u'.file) = Len(order)
                    /\ \A i \in 1 .. Len(order) :
                         /\ u'.file[i].path = order[i]
                         /\ u'.file[i].cf = u.st.copyfrom[order[i]]]_vars

\* ============================================================ node and copy ids
\* The next-ids file of a transaction and the next ids of `current'.  In
\* IdSpec u is [cur, txn, minted, last]: cur is the line of `current';
\* txn[s] is <<>> or the transaction in slot s, [base_rev, next_ids, ids],
\* ids being the <<node key, copy key>> of its mutable node-revisions;
\* minted[r] holds the node keys and the copy keys that the commit of
\* revision r turned from "_k" into a permanent key; last describes the last
\* commit: the next ids it read from `current', the next ids of the
\* transaction, and for each node-revision the keys before and after.
MaxIds == 2
MaxCommits == 2

IdSlots == {1}

\* the copy ids a caller can hand over: one of a revision, or one reserved
\* in the transaction
CopyKeys(t) ==
  {<<"", j>> : j \in 0 .. (u.cur.copy - 1)}
    \cup {<<"_", j>> : j \in 0 .. (t.next_ids.copy - 1)}

IdInit ==
  /\ Create
  /\ xdev = FALSE
  /\ u = [cur |-> [rev |-> 0, node |-> 1, copy |-> 1],
          txn |-> [s \in IdSlots |-> <<>>],
          minted |-> <<>>,
          last |-> <<>>]

\* svn_fs_fs__create_txn: the root 0.0 of the youngest revision is made
\* mutable and next-ids holds "0 0"
IdCreateTxn(s) ==
  /\ u.txn[s] = <<>>
  /\ u.cur.rev < MaxCommits
  /\ u' = [u EXCEPT !.txn[s] =
             <<[base_rev |-> u.cur.rev,
                next_ids |-> [node |-> 0, copy |-> 0],
                ids |-> {<< <<"", 0>>, <<"", 0>> >>}]>>]
  /\ UNCHANGED fsvars

\* svn_fs_fs__create_node: get_new_txn_node_id
IdCreateNode(s, copy_id) ==
  /\ u.txn[s] # <<>>
  /\ LET t == u.txn[s][1]
         k == t.next_ids.node
     IN /\ k < MaxIds
        /\ copy_id \in CopyKeys(t)
        /\ u' = [u EXCEPT !.txn[s] =
                   <<[t EXCEPT !.next_ids.node = k + 1,
                               !.ids = @ \cup {<< <<"_", k>>, copy_id >>}]>>]
  /\ UNCHANGED fsvars

\* svn_fs_fs__reserve_copy_id
IdReserveCopyId(s) ==
  /\ u.txn[s] # <<>>
  /\ LET t == u.txn[s][1]
     IN /\ t.next_ids.copy < MaxIds
        /\ u' = [u EXCEPT !.txn[s] = <<[t EXCEPT !.next_ids.copy = @ + 1]>>]
  /\ UNCHANGED fsvars

\* svn_fs_fs__create_successor of a node of a revision
IdCreateSuccessor(s, node, copy_id) ==
  /\ u.txn[s] # <<>>
  /\ LET t == u.txn[s][1]
     IN /\ node \in 1 .. (u.cur.node - 1)
        /\ copy_id \in CopyKeys(t)
        /\ << <<"", node>>, copy_id >> \notin t.ids
        /\ u' = [u EXCEPT !.txn[s] =
                   <<[t EXCEPT !.ids = @ \cup {<< <<"", node>>, copy_id >>}]>>]
  /\ UNCHANGED fsvars

\* svn_fs_fs__commit: the base is checked, get_next_revision_ids reads
\* `current', write_final_rev writes every mutable node-revision under its
\* permanent id, and write_final_current adds the next ids of the
\* transaction to the ones read; the transaction is purged
IdCommit(s) ==
  /\ u.txn[s] # <<>>
  /\ u.cur.rev < MaxCommits
  /\ LET t == u.txn[s][1]
         old_rev == u.cur.rev
         new_rev == NewRev(old_rev)
         start_node == u.cur.node
         start_copy == u.cur.copy
         map == {[old |-> id,
                  new |-> <<FinalKey(id[1], start_node),
                            FinalKey(id[2], start_copy)>>] : id \in t.ids}
         made == [node |-> {m.new[1] : m \in {x \in map : x.old[1][1] = "_"}},
                  copy |-> {m.new[2] : m \in {x \in map : x.old[2][1] = "_"}}]
     IN IF TxnOutOfDate(t.base_rev, old_rev)
          THEN u' = [u EXCEPT !.txn[s] = <<>>]
          ELSE u' = [cur |-> [rev |-> new_rev,
                              node |-> AddKeys(start_node, t.next_ids.node),
                              copy |-> AddKeys(start_copy, t.next_ids.copy)],
                     txn |-> [u.txn EXCEPT ![s] = <<>>],
                     minted |-> Append(u.minted, made),
                     last |-> <<[start |-> [node |-> start_node,
                                            copy |-> start_copy],
                                 next_ids |-> t.next_ids,
                                 rev |-> new_rev, map |-> map]>>]
  /\ UNCHANGED fsvars

IdNext ==
  \/ \E s \in IdSlots : IdCreateTxn(s)
  \/ \E s \in IdSlots : \E c \in {"", "_"} \X (0 .. MaxIds) : IdCreateNode(s, c)
  \/ \E s \in IdSlots : IdReserveCopyId(s)
  \/ \E s \in IdSlots : \E n \in 1 .. MaxIds :
       \E c \in {"", "_"} \X (0 .. MaxIds) : IdCreateSuccessor(s, n, c)
  \/ \E s \in IdSlots : IdCommit(s)

IdSpec == IdInit /\ [][IdNext]_vars

\* a key "_k" of the transaction is written as START + k with k below NEXT;
\* another key is kept
PermanentKey(old, new, start, next) ==
  IF old[1] = "_"
    THEN new = <<"", start + old[2]>> /\ old[2] < next
    ELSE new = old

\* C30: a commit that read the next ids (n0, c0) from `current', of a
\* transaction whose next-ids holds (tn, tc), writes every node id "_k" as
\* n0 + k with k < tn and every copy id "_k" as c0 + k with k < tc, keeps
\* the other ids, and leaves (n0 + tn, c0 + tc) in `current'; no node id or
\* copy id made in one revision is made again in another.
C30_PermanentIdsAreFreshAndCounted ==
  ("last" \in DOMAIN u /\ u.last # <<>>) =>
    LET l == u.last[1]
    IN /\ \A m \in l.map :
            /\ PermanentKey(m.old[1], m.new[1], l.start.node, l.next_ids.node)
            /\ PermanentKey(m.old[2], m.new[2], l.start.copy, l.next_ids.copy)
       /\ u.cur.rev = l.rev =>
            /\ u.cur.node = l.start.node + l.next_ids.node
            /\ u.cur.copy = l.start.copy + l.next_ids.copy
       /\ \A r1, r2 \in 1 .. Len(u.minted) :
            r1 # r2 =>
              /\ u.minted[r1].node \cap u.minted[r2].node = {}
              /\ u.minted[r1].copy \cap u.minted[r2].copy = {}
       /\ \A r \in 1 .. Len(u.minted) :
            <<"", 0>> \notin u.minted[r].node

\* two commits that each made node ids and copy ids
C30_Witness ==
  /\ "minted" \in DOMAIN u
  /\ Len(u.minted) = 2
  /\ \A r \in 1 .. 2 : /\ Cardinality(u.minted[r].node) = 2
                       /\ u.minted[r].copy # {}

\* ============================================= diff_file.c: the two scans
\* datasources_open step by step.  In ScanSpec u is [pc, datas, g, uninit,
\* file, prefix, scanned]: the contents are some lines, up to MaxScanHead
\* bytes, and some lines that all contents end with; file is the array of file_info, prefix what
\* find_identical_prefix returned, a record [file, prefix_lines,
\* reached_one_eof], and scanned the set of the scans that have run.
MaxScanHead == 2

ScanHeads == SeqsUpTo(MaxScanHead)

ScanInit ==
  /\ Create
  /\ xdev = FALSE
  /\ \E h1 \in ScanHeads, h2 \in ScanHeads, third \in 0..2,
        l1 \in TailLens, l2 \in TailLens, t \in TailLens,
        g \in {"a", LF}, uninit \in BOOLEAN :
       LET d1 == Lines(l1) \o h1 \o Lines(t)
           d2 == Lines(l2) \o h2 \o Lines(t)
           datas == IF third = 0 THEN <<d1, d2>>
                    ELSE IF third = 1 THEN <<d1, d2, d1>>
                    ELSE <<d1, d2, d2>>
       IN u = [pc |-> "open", datas |-> datas, g |-> g, uninit |-> uninit,
               file |-> <<>>, prefix |-> <<>>, scanned |-> {}]

\* datasources_open: the files are opened; it returns when one is empty
ScanOpenFiles ==
  /\ u.pc = "open"
  /\ u' = [u EXCEPT !.file = OpenFirstChunks(u.datas, u.g),
                    !.pc = IF \E i \in DOMAIN u.datas : Len(u.datas[i]) = 0
                             THEN "done" ELSE "prefix"]
  /\ UNCHANGED fsvars

\* datasources_open: find_identical_prefix and the test of reached_one_eof
ScanPrefix ==
  /\ u.pc = "prefix"
  /\ LET p == find_identical_prefix(u.file, u.uninit)
     IN u' = [u EXCEPT !.file = p.file, !.prefix = p,
                       !.scanned = {"prefix"},
                       !.pc = IF p.reached_one_eof THEN "done" ELSE "suffix"]
  /\ UNCHANGED fsvars

\* datasources_open: find_identical_suffix
ScanSuffix ==
  /\ u.pc = "suffix"
  /\ u' = [u EXCEPT !.file = find_identical_suffix(u.file),
                    !.scanned = {"prefix", "suffix"}, !.pc = "done"]
  /\ UNCHANGED fsvars

ScanNext ==
  \/ ScanOpenFiles
  \/ ScanPrefix
  \/ ScanSuffix

ScanSpec == ScanInit /\ [][ScanNext]_vars

\* ---- what the contents say
\* the number of end-of-line sequences in s, "\r\n" counted once
EolCount(s) ==
  Cardinality({k \in 1..Len(s) :
                 \/ s[k] = CR
                 \/ s[k] = LF /\ (k = 1 \/ s[k - 1] # CR)})

\* position n of data is the start of data, or follows a complete
\* end-of-line sequence
AfterCompleteEol(data, n) ==
  \/ n = 0
  \/ /\ n <= Len(data)
     /\ data[n] \in {LF, CR}
     /\ ~(data[n] = CR /\ n < Len(data) /\ data[n + 1] = LF)

\* the length of the longest common prefix of the contents
CommonPrefixLen(datas) ==
  LET common(n) == \A i \in DOMAIN datas :
                     /\ n <= Len(datas[i])
                     /\ SubSeq(datas[i], 1, n) = SubSeq(datas[1], 1, n)
      m == Len(datas[1])
  IN CHOOSE n \in 0..m : common(n) /\ \A k \in (n + 1)..m : ~common(k)

\* where file i stood when find_identical_prefix returned
PrefixEnd(i) ==
  chunk_to_offset(u.prefix.file[i].chunk) + u.prefix.file[i].curp

PrefixRan == "scanned" \in DOMAIN u /\ "prefix" \in u.scanned

SuffixRan == "scanned" \in DOMAIN u /\ "suffix" \in u.scanned

\* C31: after find_identical_prefix the bytes before the position of every
\* source are the same in all sources and, unless every source was consumed
\* entirely, are empty or end right after a complete end-of-line sequence
\* of every source; prefix_lines is the number of end-of-line sequences in
\* them, "\r\n" counted once.
C31_PrefixIsWholeIdenticalLines ==
  PrefixRan =>
    LET n == PrefixEnd(1)
        pre == SubSeq(u.datas[1], 1, n)
    IN /\ \A i \in DOMAIN u.datas :
            /\ PrefixEnd(i) = n
            /\ n >= 0 /\ n <= Len(u.datas[i])
            /\ SubSeq(u.datas[i], 1, n) = pre
       /\ \/ \A i \in DOMAIN u.datas : n = Len(u.datas[i])
          \/ \A i \in DOMAIN u.datas : AfterCompleteEol(u.datas[i], n)
       /\ u.prefix.prefix_lines = EolCount(pre)

\* three common lines and a "\r" that one source goes on after with "\n":
\* the prefix is backed up to the three lines
C31_Witness ==
  /\ PrefixRan
  /\ Len(u.datas) = 3
  /\ CommonPrefixLen(u.datas) = 4
  /\ u.datas[1][4] = CR
  /\ Len(u.datas[1]) > 4 /\ u.datas[1][5] = "a"
  /\ Len(u.datas[2]) > 4 /\ u.datas[2][5] = LF
  /\ PrefixEnd(1) = 3
  /\ u.prefix.prefix_lines = 3

\* C32: find_identical_prefix sets *reached_one_eof before it returns, to
\* TRUE when a source reached its end while the prefix was scanned, that is
\* when a source is a prefix of all the others, and to FALSE otherwise, also
\* when the first bytes differ.
C32_ReachedOneEofIsAssigned ==
  PrefixRan =>
    u.prefix.reached_one_eof
      = (\E i \in DOMAIN u.datas : CommonPrefixLen(u.datas) = Len(u.datas[i]))

\* where the identical suffix of source i starts
SuffixStartOf(i) ==
  chunk_to_offset(u.file[i].suffix_start_chunk)
    + u.file[i].suffix_offset_in_chunk

\* C33: after find_identical_suffix the suffix start of every source is at
\* or after the end of its identical prefix, the bytes from there to the end
\* of the file are the same in all sources, and the suffix start is the end
\* of the file or follows a complete end-of-line sequence.
C33_SuffixIsWholeIdenticalLines ==
  SuffixRan =>
    \A i \in DOMAIN u.datas :
      LET s == SuffixStartOf(i)
          size == Len(u.datas[i])
      IN /\ s >= PrefixEnd(i)
         /\ s <= size
         /\ \A j \in DOMAIN u.datas :
              /\ size - s = Len(u.datas[j]) - SuffixStartOf(j)
              /\ SubSeq(u.datas[i], s + 1, size)
                   = SubSeq(u.datas[j], SuffixStartOf(j) + 1, Len(u.datas[j]))
         /\ (s = size \/ AfterCompleteEol(u.datas[i], s))

\* ---- the bytes read through curp
\* curp of f points into the chunk that f holds
InChunk(f) == 0 <= f.curp /\ f.curp < f.endp

\* the bytes is_match reads lie in the chunks: file[0] and file[i] are read
\* as long as all the files before file[i] matched
MatchInChunk(file) ==
  \A i \in 2..Len(file) :
    (\A j \in 2..(i - 1) : Deref(file[1], file[1].curp) = Deref(file[j], file[j].curp))
      => InChunk(file[1]) /\ InChunk(file[i])

RECURSIVE PrefixLoopInChunk(_)
\* the reads of the while (is_match) loop of find_identical_prefix
PrefixLoopInChunk(file) ==
  LET next == increment_pointers(file)
  IN /\ InChunk(file[1])
     /\ is_one_at_eof(next)
          \/ /\ MatchInChunk(next)
             /\ IsMatch(next) => PrefixLoopInChunk(next)

RECURSIVE BackUpInChunk(_)
\* the reads of the loop that backs up to the last eol sequence
BackUpInChunk(file) ==
  is_one_at_bof(file)
    \/ /\ InChunk(file[1])
       /\ Deref(file[1], file[1].curp) \notin {LF, CR}
            => BackUpInChunk(decrement_pointers(file))

\* the reads of find_identical_prefix
PrefixInChunk(file, uninit) ==
  LET r == PrefixScan(file, uninit)
      reached_all_eof == \A i \in DOMAIN file : r.file[i].curp = r.file[i].endp
      ended_at_nonmatching_newline ==
        r.had_cr /\ \E i \in DOMAIN r.file :
                      Deref(r.file[i], r.file[i].curp) = LF
      f1 == IF ended_at_nonmatching_newline THEN decrement_pointers(r.file)
            ELSE r.file
  IN /\ MatchInChunk(file)
     /\ IsMatch(file) => PrefixLoopInChunk(file)
     /\ ~reached_all_eof =>
          /\ r.had_cr =>
               \A i \in DOMAIN r.file :
                 (\A j \in 1..(i - 1) : Deref(r.file[j], r.file[j].curp) # LF)
                   => InChunk(r.file[i])
          /\ BackUpInChunk(decrement_pointers(f1))

RECURSIVE SuffixLoopInChunk(_, _)
\* the reads of the while (is_match) loop of find_identical_suffix
SuffixLoopInChunk(file, min) ==
  LET next == decrement_pointers(file)
      reached_prefix == next[1].chunk = min.chunk0 /\ next[1].curp = min.offset0
  IN reached_prefix \/ is_one_at_bof(next)
       \/ /\ MatchInChunk(next)
          /\ IsMatch(next) => SuffixLoopInChunk(next, min)

RECURSIVE SlideInChunk(_)
SlideInChunk(file) ==
  is_one_at_eof(file)
    \/ /\ InChunk(file[1])
       /\ Deref(file[1], file[1].curp) \notin {LF, CR}
            => SlideInChunk(increment_pointers(file))

RECURSIVE KeepLinesInChunk(_, _)
\* the reads of the do ... while loop of find_identical_suffix
KeepLinesInChunk(file, suffix_lines_to_keep) ==
  LET s1 == SlideToEol(file)
      s2 == IF ~is_one_at_eof(s1) /\ Deref(s1[1], s1[1].curp) = CR
              THEN increment_pointers(s1) ELSE s1
      s3 == IF ~is_one_at_eof(s2) /\ Deref(s2[1], s2[1].curp) = LF
              THEN increment_pointers(s2) ELSE s2
  IN /\ SlideInChunk(file)
     /\ is_one_at_eof(s1) \/ InChunk(s1[1])
     /\ is_one_at_eof(s2) \/ InChunk(s2[1])
     /\ (~is_one_at_eof(s3) /\ suffix_lines_to_keep # 0)
          => KeepLinesInChunk(s3, suffix_lines_to_keep - 1)

\* the reads of find_identical_suffix
SuffixInChunk(file) ==
  /\ MatchInChunk(SuffixFiles(file))
  /\ IsMatch(SuffixFiles(file))
       => SuffixLoopInChunk(SuffixFiles(file), SuffixMin(file))
  /\ KeepLinesInChunk(increment_pointers(SuffixScan(file)),
                      SUFFIX_LINES_TO_KEEP)

\* C38: every byte that the prefix scan and the suffix scan read through
\* the curp of a source lies in the chunk that the source holds, whatever
\* the sizes of the sources.
C38_ScansReadInsideTheChunks ==
  /\ PrefixRan => PrefixInChunk(OpenFirstChunks(u.datas, u.g), u.uninit)
  /\ SuffixRan => SuffixInChunk(u.prefix.file)


\* ===================================================== streams over a base
\* A descriptor read through get_contents when the revision file holds the
\* bytes around the representation too: either a PLAIN representation read
\* directly, or one DELTA representation whose windows copy from a source
\* view, over a PLAIN base or over no base at all.  The windows are whatever
\* the file holds; a revision file that commit wrote is one case of them.

\* largest sview_offset and sview_len of a window
MaxView == 2

\* "PLAIN\n" and "ENDREP\n" as the bytes of the file
PlainLine == <<80, 76, 65, 73, 78, 10>>

EndrepLine == <<69, 78, 68, 82, 69, 80, 10>>

\* the revision file around one PLAIN representation of `data'
PlainRepFile(data) == PlainLine \o data \o EndrepLine

\* one svndiff window: with src_ops > 0 a copy of the whole source view, then
\* the new data
SourceWindows ==
  [src_ops : {1}, sview_offset : 0 .. MaxView, sview_len : 0 .. MaxView,
   new_data : {<<>>, <<2>>}]
    \cup [src_ops : {0}, sview_offset : {0}, sview_len : {0},
          new_data : {<<1>>, <<1, 2>>}]

\* svn_io_file_read_full with a NULL bytes_read: all `len' bytes or an error
ReadFull(file, off, len) ==
  IF off + len > Len(file) THEN [err |-> "eof", data |-> <<>>]
  ELSE [err |-> "none", data |-> SubSeq(file, off + 1, off + len)]

\* svn_txdelta__apply_instructions on such a window
ApplyInstructions(window, sbuf) ==
  (IF window.src_ops > 0 THEN sbuf ELSE <<>>) \o window.new_data

\* the plain case of get_contents reads past the end of the representation
PlainCopyLenUnclamped(remaining, rs_end, rs_off) == remaining

\* copy_len of the plain case of get_contents
PlainCopyLen(remaining, rs_end, rs_off) == Min(remaining, rs_end - rs_off)

\* rep_read_get_baton with build_rep_list: f.start is the offset after the
\* "PLAIN\n" line, f.end that plus the size of the descriptor
StreamBaton(f) ==
  [buf |-> <<>>, buf_pos |-> 0, chunk_index |-> 0, src_off |-> f.start,
   sviews |-> {}]

\* get_contents: the next `remaining' bytes after those in `got'.  The delta
\* representation is at its end when its last window was read; sviews keeps
\* the ranges of the file read as source data.
RECURSIVE GetContentsOnBase(_, _, _, _)
GetContentsOnBase(f, rb, remaining, got) ==
  IF ~f.is_delta
    THEN LET copy_len == PlainCopyLen(remaining, f.end, rb.src_off)
             r == ReadFull(f.file, rb.src_off, copy_len)
         IN [err |-> r.err, rb |-> [rb EXCEPT !.src_off = @ + copy_len],
             data |-> r.data]
  ELSE IF remaining = 0
    THEN [err |-> "none", rb |-> rb, data |-> got]
  ELSE IF rb.buf # <<>>
    THEN LET b == rb.buf[1]
             copy_len == Min(Len(b) - rb.buf_pos, remaining)
             pos == rb.buf_pos + copy_len
         IN GetContentsOnBase(f,
                              IF pos = Len(b)
                                THEN [rb EXCEPT !.buf = <<>>, !.buf_pos = pos]
                              ELSE [rb EXCEPT !.buf_pos = pos],
                              remaining - copy_len,
                              got \o SubSeq(b, rb.buf_pos + 1, pos))
  ELSE IF rb.chunk_index = Len(f.windows)
    THEN [err |-> "none", rb |-> rb, data |-> got]
  ELSE LET window == f.windows[rb.chunk_index + 1]
           rb1 == [rb EXCEPT !.chunk_index = @ + 1]
       IN IF window.src_ops > 0
            THEN IF ~f.has_base
                   THEN [err |-> "corrupt", rb |-> rb1, data |-> got]
                 ELSE IF ~(f.start + window.sview_offset < f.end)
                   THEN [err |-> "corrupt", rb |-> rb1, data |-> got]
                 ELSE LET off == f.start + window.sview_offset
                          r == ReadFull(f.file, off, window.sview_len)
                      IN IF r.err # "none"
                           THEN [err |-> r.err, rb |-> rb1, data |-> got]
                         ELSE GetContentsOnBase(f,
                                [rb1 EXCEPT
                                   !.src_off = off + window.sview_len,
                                   !.sviews = @ \cup {<<off, window.sview_len>>},
                                   !.buf = <<ApplyInstructions(window, r.data)>>,
                                   !.buf_pos = 0],
                                remaining, got)
          ELSE GetContentsOnBase(f,
                                 [rb1 EXCEPT
                                    !.buf = <<ApplyInstructions(window, <<>>)>>,
                                    !.buf_pos = 0],
                                 remaining, got)

\* the stream read to its end with reads of `len' bytes each
RECURSIVE ReadAll(_, _, _, _)
ReadAll(f, rb, len, out) ==
  LET r == GetContentsOnBase(f, rb, len, <<>>)
  IN IF r.err # "none" THEN [err |-> r.err, out |-> out]
     ELSE IF Len(r.data) < len THEN [err |-> "none", out |-> out \o r.data]
     ELSE ReadAll(f, r.rb, len, out \o r.data)

\* -- the specification of one stream
StreamFile(data, is_delta, has_base, windows) ==
  [file |-> IF has_base \/ ~is_delta THEN PlainRepFile(data) ELSE <<>>,
   is_delta |-> is_delta, has_base |-> has_base, windows |-> windows,
   start |-> IF has_base \/ ~is_delta THEN Len(PlainLine) ELSE 0,
   end |-> IF has_base \/ ~is_delta THEN Len(PlainLine) + Len(data) ELSE 0]

StreamInit ==
  /\ Create /\ xdev = FALSE
  /\ \E data \in DataOf(MaxData), is_delta, has_base \in BOOLEAN :
       \E n \in 0 .. 2 : \E windows \in [1 .. n -> SourceWindows] :
         /\ ~is_delta => (n = 0 /\ has_base)
         /\ LET f == StreamFile(data, is_delta, has_base, windows)
            IN u = [pc |-> "open", f |-> f, rb |-> StreamBaton(f),
                    out |-> <<>>, eof |-> FALSE, err |-> "none", reads |-> 0]

\* svn_stream_read of `len' bytes
StreamReadOnBase(len) ==
  /\ u.pc = "open" /\ ~u.eof
  /\ LET r == GetContentsOnBase(u.f, u.rb, len, <<>>)
     IN u' = IF r.err # "none"
               THEN [u EXCEPT !.pc = "failed", !.err = r.err, !.rb = r.rb]
             ELSE [u EXCEPT !.rb = r.rb, !.out = @ \o r.data,
                            !.eof = Len(r.data) < len, !.reads = 1]
  /\ UNCHANGED fsvars

\* svn_stream_read on a stream that gave a short read
StreamReadAtEnd(len) ==
  /\ u.pc = "open" /\ u.eof
  /\ LET r == GetContentsOnBase(u.f, u.rb, len, <<>>)
     IN u' = IF r.err # "none"
               THEN [u EXCEPT !.pc = "failed", !.err = r.err, !.rb = r.rb]
             ELSE [u EXCEPT !.rb = r.rb, !.out = @ \o r.data, !.reads = 2]
  /\ UNCHANGED fsvars

StreamNext ==
  \/ \E len \in 1 .. MaxRead : StreamReadOnBase(len)
  \/ \E len \in 1 .. MaxRead : StreamReadAtEnd(len)

StreamSpec == StreamInit /\ [][StreamNext]_vars

\* C34: a window that references source bytes is read without the corrupt
\* error only if a plain base exists and the whole source view lies inside
\* the extent of the base; no byte outside the extent is read as source data.
C34_SourceViewInsideBase ==
  ("f" \in DOMAIN u /\ "sviews" \in DOMAIN u.rb)
    => \A v \in u.rb.sviews :
         /\ u.f.has_base
         /\ u.f.start <= v[1]
         /\ v[1] + v[2] <= u.f.end

\* the bytes reads of one byte each deliver
OneByteAtATime == ReadAll(u.f, StreamBaton(u.f), 1, <<>>)

IsPrefix(s, t) == Len(s) <= Len(t) /\ s = SubSeq(t, 1, Len(s))

\* C36: whatever the sizes of the reads, the bytes a stream has delivered are
\* the first bytes of what reads of one byte deliver, a read returns fewer
\* bytes than asked only when all of them are delivered and later reads
\* deliver nothing, and a PLAIN representation delivers its `size' payload
\* bytes and no byte of the ENDREP line.
C36_BytesDoNotDependOnReadSizes ==
  ("f" \in DOMAIN u /\ "sviews" \in DOMAIN u.rb)
    => /\ IsPrefix(u.out, OneByteAtATime.out)
       /\ u.eof => (u.out = OneByteAtATime.out /\ OneByteAtATime.err = "none"
                    /\ u.pc = "open")
       /\ ~u.f.is_delta
            => /\ IsPrefix(u.out, SubSeq(u.f.file, u.f.start + 1, u.f.end))
               /\ u.eof => Len(u.out) = u.f.end - u.f.start

C36_Witness ==
  /\ "f" \in DOMAIN u /\ "sviews" \in DOMAIN u.rb
  /\ ~u.f.is_delta /\ u.eof /\ u.reads = 2
  /\ Len(u.out) = MaxData
  /\ u.rb.src_off = u.f.end


\* ==================================================================== pipe.c
\* One direction of a pipe: svn_pipe_send on the writing endpoint, then
\* svn_pipe_receive on the reading endpoint, which blocks in apr_file_getc
\* and apr_file_read until the peer has written or closed.

\* frames sent before the writing endpoint is closed
MaxFrames == 2

\* sizeof(buf) in svn_pipe_receive, scaled down with the frames
BUFSIZ == 3

\* the data of a frame
Frames ==
  {<<>>, <<"a">>, <<"1", ":">>, [k \in 1 .. 10 |-> IF k % 2 = 0 THEN ":" ELSE "b"]}

\* apr_psprintf of "%d"
RECURSIVE ToDecimal(_)
ToDecimal(n) ==
  IF n < 10 THEN <<Digits[n + 1]>>
  ELSE ToDecimal(n \div 10) \o <<Digits[(n % 10) + 1]>>

\* the bytes svn_pipe_send writes: the header, then the data
Frame(data) == ToDecimal(Len(data)) \o <<":">> \o data

\* c - '0' for the characters of the frames
CharMinusZero(c) ==
  IF IsDigit(c) THEN DigitValue(c)
  ELSE IF c = ":" THEN 10
  ELSE IF c = "a" THEN 49 ELSE 50

\* frame_len after one more character of the header; no header of these
\* frames takes it near the width of an unsigned int
NextFrameLen(frame_len, c) == frame_len * 10 + CharMinusZero(c)

RxIdle == [pc |-> "idle", frame_len |-> 0, total |-> 0, stored |-> <<>>]

PipeInit ==
  /\ Create /\ xdev = FALSE
  /\ u = [sent |-> <<>>, pipe |-> <<>>, closed |-> FALSE, consumed |-> 0,
          received |-> <<>>, rx |-> RxIdle]

\* svn_pipe_send of `data'
PipeSend(data) ==
  /\ ~u.closed /\ Len(u.sent) < MaxFrames
  /\ u' = [u EXCEPT !.sent = Append(@, data), !.pipe = @ \o Frame(data)]
  /\ UNCHANGED fsvars

\* svn_pipe_close on the writing endpoint
PipeClose ==
  /\ ~u.closed
  /\ u' = [u EXCEPT !.closed = TRUE]
  /\ UNCHANGED fsvars

\* svn_pipe_receive is called
PipeReceive ==
  /\ u.rx.pc = "idle"
  /\ u' = [u EXCEPT !.rx = [RxIdle EXCEPT !.pc = "header"]]
  /\ UNCHANGED fsvars

\* svn_pipe_receive returns *data and *length
Returned(rx) ==
  [data |-> SubSeq(rx.stored, 1, rx.frame_len), length |-> rx.frame_len]

\* one turn of the first loop of svn_pipe_receive: apr_file_getc
PipeGetc ==
  /\ u.rx.pc = "header"
  /\ \/ /\ u.pipe = <<>> /\ u.closed
        /\ u' = [u EXCEPT !.rx.pc = "error"]
     \/ /\ u.pipe # <<>>
        /\ LET c == Head(u.pipe)
               rest == [u EXCEPT !.pipe = Tail(@), !.consumed = @ + 1]
           IN u' = IF c # ":"
                     THEN [rest EXCEPT !.rx.frame_len = NextFrameLen(@, c)]
                   ELSE IF u.rx.total < u.rx.frame_len
                     THEN [rest EXCEPT !.rx.pc = "body"]
                   ELSE [rest EXCEPT !.received = Append(@, Returned(u.rx)),
                                     !.rx = RxIdle]
  /\ UNCHANGED fsvars

\* one turn of the second loop of svn_pipe_receive: apr_file_read gives `len'
\* of the bytes in the pipe, at most sizeof(buf) of them, and memcpy stores
\* them all; stored past the frame_len bytes of *data they leave it whole or
\* end the process
PipeRead(len, outcome) ==
  /\ u.rx.pc = "body"
  /\ \/ /\ u.pipe = <<>> /\ u.closed /\ len = 1 /\ outcome = "whole"
        /\ u' = [u EXCEPT !.rx.pc = "error"]
     \/ /\ u.pipe # <<>> /\ len <= Min(BUFSIZ, Len(u.pipe))
        /\ LET rx == [u.rx EXCEPT !.stored = @ \o SubSeq(u.pipe, 1, len),
                                  !.total = @ + len]
               rest == [u EXCEPT !.pipe = SubSeq(@, len + 1, Len(@)),
                                 !.consumed = @ + len, !.rx = rx]
           IN /\ (outcome = "crash") => rx.total > rx.frame_len
              /\ u' = IF outcome = "crash"
                        THEN [rest EXCEPT !.rx.pc = "crashed"]
                      ELSE IF rx.total < rx.frame_len THEN rest
                      ELSE [rest EXCEPT !.received = Append(@, Returned(rx)),
                                        !.rx.pc = "idle"]
  /\ UNCHANGED fsvars

PipeNext ==
  \/ \E data \in Frames : PipeSend(data)
  \/ PipeClose
  \/ PipeReceive
  \/ PipeGetc
  \/ \E len \in 1 .. BUFSIZ, outcome \in {"whole", "crash"} : PipeRead(len, outcome)

PipeSpec == PipeInit /\ [][PipeNext]_vars

\* the bytes of the first n frames sent
RECURSIVE FramesLen(_, _)
FramesLen(sent, n) ==
  IF n = 0 \/ sent = <<>> THEN 0
  ELSE Len(Frame(Head(sent))) + FramesLen(Tail(sent), n - 1)

\* C35: the receives return the data and lengths of the sends in order,
\* however the bytes come through the pipe; a receive consumes no byte of the
\* frame after its own and stores no more bytes than the header announced.
C35_FramesArriveWhole ==
  ("received" \in DOMAIN u)
    => /\ \A i \in 1 .. Len(u.received) :
            /\ i <= Len(u.sent)
            /\ u.received[i].data = u.sent[i]
            /\ u.received[i].length = Len(u.sent[i])
       /\ u.rx.total <= u.rx.frame_len
       /\ u.consumed
            <= FramesLen(u.sent, Len(u.received)
                                   + (IF u.rx.pc \in {"header", "body"} THEN 1 ELSE 0))
       /\ (u.rx.pc \in {"error", "crashed"}) => Len(u.received) = Len(u.sent)


\* ------------------------------------------------- a new transaction committed
\* C37: a transaction that svn_fs_fs__create_txn made on the youngest
\* revision B and that is committed with no operation in between, with no
\* failure of the file layer, commits as B + 1; its commit does not return an
\* error after promoting revs/<B + 1> for want of a `props' file.
C37_NewTxnCommits ==
  \A p \in Procs :
    (/\ pc[p] = "returned" /\ faults = 0 /\ ~xdev /\ ~loc[p].again
     /\ loc[p].young = Base(p) /\ Base(p) = loc[p].old_rev
     /\ ~Dir(p).props.exists /\ Dir(p).changes.data = <<>>
     /\ Dir(p).children = <<>> /\ Dir(p).nodeprops = <<>>
     /\ Dir(p).next_ids.node = 0)
      => /\ result[p] = "ok"
         /\ hist.pub[Base(p) + 1] = <<Txn(p)>>


\* ================================================= two streams, one proto-rev
\* The streams that svn_fs_fs__set_contents gives for two new file nodes of
\* one transaction.  Each stream has its own handle on the proto-rev file,
\* opened without APR_APPEND, and so its own position in it.

\* the file nodes of the transaction
WNodes == {1, 2}

\* "DELTA\n" and "SVN\0" as the bytes of the file
DeltaLine == <<68, 69, 76, 84, 65, 10>>

SvnLine == <<83, 86, 78, 0>>

\* apr_file_write on a handle at `pos': the bytes replace what the file has
\* there and lengthen it past its end
WriteAt(file, pos, bytes) ==
  LET end == IF pos + Len(bytes) > Len(file) THEN pos + Len(bytes) ELSE Len(file)
  IN [k \in 1 .. end |->
        IF k > pos /\ k <= pos + Len(bytes) THEN bytes[k - pos] ELSE file[k]]

NoBaton ==
  [state |-> "none", pos |-> 0, rep_offset |-> 0, delta_start |-> 0,
   rep_size |-> 0, md5_context |-> Md5Init, pending |-> <<>>,
   svn_written |-> FALSE]

\* the window handler of svn_txdelta_to_svndiff: "SVN\0" before the first
\* window, then the window's header and its new data
SvndiffBytes(b, w) ==
  (IF b.svn_written THEN <<>> ELSE SvnLine)
    \o (IF w = <<>> THEN <<>> ELSE <<Len(w)>> \o w)

\* the stream writes `bytes' through its handle
Emit(st, n, bytes) ==
  [st EXCEPT !.file = WriteAt(@, st.b[n].pos, bytes),
             !.b[n].pos = @ + Len(bytes)]

WriteInit ==
  /\ Create /\ xdev = FALSE
  /\ u = [file |-> <<>>, b |-> [n \in WNodes |-> NoBaton],
          written |-> [n \in WNodes |-> <<>>],
          reps |-> [n \in WNodes |-> <<>>], both |-> FALSE]

\* svn_fs_fs__set_contents on node n: rep_write_get_baton opens the
\* proto-rev file, seeks to its end and writes the header there
RepWriteGetBaton(n) ==
  /\ u.b[n].state = "none"
  /\ LET offset == Len(u.file)
         st == [u EXCEPT !.b[n] = [NoBaton EXCEPT !.state = "open",
                                                  !.pos = offset,
                                                  !.rep_offset = offset]]
         st1 == Emit(st, n, DeltaLine)
     IN u' = [st1 EXCEPT !.b[n].delta_start = st1.b[n].pos,
                         !.both = @ \/ \E m \in WNodes : u.b[m].state = "open"]
  /\ UNCHANGED fsvars

\* rep_write_contents of one byte: the delta stream writes a window when it
\* has WindowSize bytes of target
RepWriteContents(n, byte) ==
  /\ u.b[n].state = "open" /\ Len(u.written[n]) < MaxData
  /\ LET b == [u.b[n] EXCEPT !.md5_context = Md5Update(@, <<byte>>),
                             !.rep_size = @ + 1,
                             !.pending = Append(@, byte)]
         st == [u EXCEPT !.b[n] = b, !.written[n] = Append(@, byte)]
     IN u' = IF Len(b.pending) < WindowSize THEN st
             ELSE [Emit(st, n, SvndiffBytes(b, b.pending))
                     EXCEPT !.b[n].pending = <<>>, !.b[n].svn_written = TRUE]
  /\ UNCHANGED fsvars

\* rep_write_contents_close: the last window, the descriptor, "ENDREP\n",
\* and the node-revision with the descriptor
RepWriteContentsClose(n) ==
  /\ u.b[n].state = "open"
  /\ LET st == Emit(u, n, SvndiffBytes(u.b[n], u.b[n].pending))
         b == st.b[n]
         rep == [offset |-> b.rep_offset, size |-> b.pos - b.delta_start,
                 expanded_size |-> b.rep_size,
                 checksum |-> Md5Final(b.md5_context)]
     IN u' = [Emit(st, n, EndrepLine)
                EXCEPT !.b[n].state = "closed", !.b[n].pending = <<>>,
                       !.reps[n] = <<rep>>]
  /\ UNCHANGED fsvars

WriteNext ==
  \/ \E n \in WNodes : RepWriteGetBaton(n)
  \/ \E n \in WNodes, byte \in Bytes : RepWriteContents(n, byte)
  \/ \E n \in WNodes : RepWriteContentsClose(n)

WriteSpec == WriteInit /\ [][WriteNext]_vars

\* the windows of the svndiff data between p and end
RECURSIVE ReadWindows(_, _, _)
ReadWindows(file, p, end) ==
  IF p >= end THEN [err |-> "none", data |-> <<>>]
  ELSE LET off == p + 1 + file[p + 1]
       IN IF off > end THEN [err |-> "corrupt", data |-> <<>>]
          ELSE LET r == ReadWindows(file, off, end)
               IN [err |-> r.err, data |-> SubSeq(file, p + 2, off) \o r.data]

\* read_representation on a descriptor of the proto-rev file and the stream
\* read to its end: read_rep_line, the "SVN" of build_rep_list, the windows
\* and the digest of rep_read_contents
ReadBack(file, rep) ==
  LET start == rep.offset + Len(DeltaLine)
      end == start + rep.size
  IN IF end > Len(file) \/ SubSeq(file, rep.offset + 1, start) # DeltaLine
          \/ rep.size < Len(SvnLine)
          \/ SubSeq(file, start + 1, start + 3) # SubSeq(SvnLine, 1, 3)
       THEN [err |-> "corrupt", data |-> <<>>]
     ELSE LET r == ReadWindows(file, start + Len(SvnLine), end)
          IN IF r.err = "none" /\ Len(r.data) = rep.expanded_size
                  /\ Md5Final(Md5Update(Md5Init, r.data)) # rep.checksum
               THEN [err |-> "corrupt", data |-> r.data]
             ELSE r

\* the bytes of the file that hold the representation, header to "ENDREP\n"
RepExtent(rep) ==
  (rep.offset + 1) .. (rep.offset + Len(DeltaLine) + rep.size + Len(EndrepLine))

\* C39: when two streams of one transaction were open at the same time, in
\* whatever order their writes and closes came, the descriptor each node
\* gets reads back the bytes written to its own stream, with their count and
\* digest, and the two representations share no byte of the proto-rev file.
C39_InterleavedStreamsKeepTheirBytes ==
  ("reps" \in DOMAIN u /\ u.both /\ \A n \in WNodes : u.reps[n] # <<>>)
    => /\ \A n \in WNodes :
            LET rep == u.reps[n][1] IN
            /\ ReadBack(u.file, rep) = [err |-> "none", data |-> u.written[n]]
            /\ rep.expanded_size = Len(u.written[n])
            /\ rep.checksum = Md5Final(Md5Update(Md5Init, u.written[n]))
       /\ RepExtent(u.reps[1][1]) \cap RepExtent(u.reps[2][1]) = {}

\* streams opened one after the other's close keep their bytes
C39_StreamsInTurnKeepTheirBytes ==
  ("reps" \in DOMAIN u /\ ~u.both /\ \A n \in WNodes : u.reps[n] # <<>>)
    => /\ \A n \in WNodes :
            ReadBack(u.file, u.reps[n][1]) = [err |-> "none", data |-> u.written[n]]
       /\ RepExtent(u.reps[1][1]) \cap RepExtent(u.reps[2][1]) = {}


\* ==================================================================== hotcopy
\* svn_fs_fs__hotcopy of the repository into an empty destination, one file
\* copy at a time, while the processes create and commit transactions
\* and their commits fail or stop.  Each
\* file of the source is replaced by a rename only, so a copy reads a whole
\* file.

\* the loop over the revisions stops one short
RevsToCopyButLast(youngest) == 0 .. (youngest - 1)

\* for (rev = 0; rev <= youngest; rev++)
RevsToCopy(youngest) == 0 .. youngest

HotIdle ==
  [pc |-> "h_idle", current |-> <<>>, youngest |-> -1, rev |-> 0,
   revs |-> [r \in Revs |-> NoFile], revprops |-> [r \in Revs |-> NoFile]]

HotInit == Create /\ u = HotIdle

\* svn_io_dir_file_copy of `current' (and of uuid), then get_youngest on the
\* copy
HotCopyCurrent ==
  /\ u.pc = "h_idle"
  /\ u' = [u EXCEPT !.pc = "h_revs", !.current = <<current>>,
                    !.youngest = current.rev, !.rev = 0]
  /\ UNCHANGED fsvars

\* one turn of a loop of svn_fs_fs__hotcopy over the files of `dir', the
\* copies going to the field `to' of the destination
HotCopyFile(st, dir, to, next) ==
  IF st.rev \notin RevsToCopy(st.youngest)
    THEN [st EXCEPT !.pc = next, !.rev = 0]
  ELSE IF ~dir[st.rev].exists
    THEN [st EXCEPT !.pc = "h_failed"]
  ELSE [st EXCEPT ![to][st.rev] = dir[st.rev], !.rev = @ + 1]

\* the loop over revs/
HotCopyRev ==
  /\ u.pc = "h_revs"
  /\ u' = HotCopyFile(u, revs, "revs", "h_revprops")
  /\ UNCHANGED fsvars

\* the loop over revprops/, then the empty transactions directory
HotCopyRevprop ==
  /\ u.pc = "h_revprops"
  /\ u' = HotCopyFile(u, revprops, "revprops", "h_done")
  /\ UNCHANGED fsvars

HotNext ==
  \/ \E p \in Procs :
       \/ \E B \in Revs : CreateTxn(p, B)
       \/ ChangeTxnProp(p)
       \/ StartCommit(p)
       \/ GetWriteLock(p)
       \/ YoungestRev(p)
       \/ CheckBase(p)
       \/ GetNextRevisionIds(p)
       \/ OpenProtoRev(p)
       \/ WriteFinalRevStep(p)
       \/ WriteChangesStep(p)
       \/ WriteTrailer(p)
       \/ PromoteRev(p)
       \/ PromoteRevprops(p)
       \/ WriteFinalCurrent(p)
       \/ PurgeTxn(p)
       \/ ReleaseLock(p)
       \/ IOError(p)
       \/ PoolCleanup(p)
       \/ Crash(p)
       \/ Restart(p)
  \/ HotCopyCurrent
  \/ HotCopyRev
  \/ HotCopyRevprop

HotSpec == HotInit /\ [][HotNext]_vars

\* C40: a hotcopy that returns success beside commits leaves a destination
\* whose `current' is a `current' the source had during the copy, naming a
\* revision R no younger than the source's, with revs/r and revprops/r there
\* for every r from 0 to R and equal to the files of the source.
C40_HotcopyIsACommittedPrefix ==
  ("youngest" \in DOMAIN u /\ u.pc = "h_done")
    => /\ u.current # <<>>
       /\ u.current[1].rev = u.youngest /\ u.youngest <= current.rev
       /\ hist.pub[u.youngest] = hist.by[u.youngest]
       /\ \A r \in 0 .. u.youngest :
            /\ u.revs[r].exists /\ u.revs[r] = revs[r]
            /\ u.revprops[r].exists /\ u.revprops[r] = revprops[r]

\* a commit has published a revision while the copy ran
C40_Witness ==
  /\ "youngest" \in DOMAIN u /\ u.pc = "h_done"
  /\ u.youngest >= 1 /\ current.rev > u.youngest

====
